---- MODULE Spec2Model ----
(***************************************************************************)
(* The agent orchestration engine of react-client/src/App.js (the client   *)
(* that talks to the chat-completion endpoint and to the MCP tool servers   *)
(* itself): one user turn from submission to the final assistant message,   *)
(* with the concurrent tool dispatch in between.                            *)
(*                                                                          *)
(* Text is modelled as a sequence of tokens (a path as a sequence of         *)
(* characters), an absent field of a JavaScript object as the empty          *)
(* sequence.  One in-flight turn per session is modelled (a second           *)
(* submission while a turn is in flight is left to the caller).              *)
(***************************************************************************)
EXTENDS Naturals, Sequences, FiniteSets, TLC

\* Bounds of the model.
MaxCalls == 2
MaxTurns == 2

VARIABLES
    messages,       \* useState messages: the session's conversation history
    input,          \* useState input: the typed text
    files,          \* useState files: the attachment list
    tools,          \* useState tools: the aggregated tool descriptors
    crashed,        \* the render of a history holding undefined threw (msg.role)
    turn,           \* number of turns submitted so far
    phase,          \* where the coordinating flow of the current turn stands
    apiMessages,    \* const apiMessages of the current sendMessage call
    turnTools,      \* the tools value captured by the current sendMessage call
    botMessage,     \* let botMessage of the current sendMessage call
    toolPromises,   \* const toolPromises: one promise per tool call
    doneOrder,      \* the indices of the promises in the order they settled
    toolResults,    \* const toolResults: the value Promise.all resolved to
    turnRequests,   \* the chat-completion payloads POSTed by the current turn
    turnResponses,  \* what the chat endpoint answered to them
    emittedToolCallIds, \* the ids of the tool calls the chat endpoint has emitted
    mcpoServers,    \* useState mcpoServers: the configured provider list
    storedServers,  \* localStorage['mcpoServers']
    newServerUrl,   \* useState newServerUrl: the URL typed in the settings
    testResults,    \* useState testResults: the last test verdict per URL
    fetches,        \* the fetchAllTools calls made so far, with their locals
    agentTools,     \* useState tools of the agent-service client: the discovered groups
    enabledTools,   \* useState enabledTools: the enablement map
    storedEnabled,  \* localStorage['enabledTools']
    toolsFetch,     \* where the fetchTools call of the mount effect stands
    isLoading,      \* useState isLoading
    agentRequests,  \* the payloads POSTed to the agent service
    uploads,        \* the handleFileChange calls whose FileReaders are reading
    evaluation,     \* the evaluate call of runEvaluation, and evaluationResults
    openapi,        \* a schema handed to processOpenAPISchema, and what it returns
    testing,        \* useState testing: the providers whose test is running
    tests           \* the handleTestServer calls, and whether their GET was answered

\* The state of a turn of the client that calls the tools itself.
turnVars == <<turn, phase, apiMessages, turnTools, botMessage, toolPromises,
              doneOrder, toolResults, turnRequests, turnResponses,
              emittedToolCallIds>>

\* The provider settings and the registry refreshes.
settingsVars == <<mcpoServers, storedServers, newServerUrl, testResults, fetches>>

\* The state of the client of the agent service.
agentVars == <<agentTools, enabledTools, storedEnabled, toolsFetch, isLoading,
               agentRequests>>

\* The file reads in progress, the evaluation run and the schema in hand.
\* The provider tests of the settings.
testVars == <<testing, tests>>

otherVars == <<uploads, evaluation, openapi, testing, tests>>

vars == <<messages, input, files, tools, crashed, turn, phase, apiMessages,
          turnTools, botMessage, toolPromises, doneOrder, toolResults,
          turnRequests, turnResponses, emittedToolCallIds, mcpoServers,
          storedServers, newServerUrl, testResults, fetches, agentTools,
          enabledTools, storedEnabled, toolsFetch, isLoading, agentRequests,
          uploads, evaluation, openapi, testing, tests>>

----------------------------------------------------------------------------
\* Text helpers.

\* String.prototype.endsWith('/')
EndsWithSlash(p) == Len(p) > 0 /\ p[Len(p)] = "/"

\* s.replace(/\/$/, '')
StripTrailingSlash(s) == IF EndsWithSlash(s) THEN SubSeq(s, 1, Len(s) - 1) ELSE s

\* String.prototype.trim()
RECURSIVE Trim(_)
Trim(s) ==
    IF s = <<>> THEN s
    ELSE IF s[1] = " " THEN Trim(Tail(s))
    ELSE IF s[Len(s)] = " " THEN Trim(SubSeq(s, 1, Len(s) - 1))
    ELSE s

----------------------------------------------------------------------------
\* Messages.

Msg(role, content, tool_calls, tool_call_id, name) ==
    [role |-> role, content |-> content, tool_calls |-> tool_calls,
     tool_call_id |-> tool_call_id, name |-> name]

\* The value undefined, where the code stores it as a message.
Undefined == Msg("undefined", <<>>, <<>>, <<>>, <<>>)

UserMessage(content) == Msg("user", content, <<>>, <<>>, <<>>)

AssistantMessage(content, tool_calls) == Msg("assistant", content, tool_calls, <<>>, <<>>)

\* The system prompt and the few-shot examples of the request.
SystemPrompt == Msg("system", <<"parallel-tools-prompt">>, <<>>, <<>>, <<>>)

FewShotExamples ==
    << UserMessage(<<"weather-example">>),
       AssistantMessage(<<"weather-calls">>, <<>>),
       UserMessage(<<"summarize-example">>),
       AssistantMessage(<<"summarize-calls">>, <<>>) >>

\* msg => ({ role: msg.role, content: msg.content, tool_calls: msg.tool_calls })
\* A history entry without these fields (the { text, sender } notice of a
\* failed refresh) maps to an entry whose three fields are all undefined.
ApiView(msg) ==
    IF "role" \in DOMAIN msg
    THEN Msg(msg.role, msg.content, msg.tool_calls, <<>>, <<>>)
    ELSE Undefined

\* The user content of the request: the typed text, with the attachments
\* spliced in.  A file is its name and its content, both texts.
File(name, content) == [name |-> name, content |-> content]

\* The literal the template joins with.
Separator == "\n\n---\n\n"

\* A splice that leaves out the separator between two files.
RECURSIVE FileContextUnjoined(_)
FileContextUnjoined(fs) ==
    IF fs = <<>> THEN <<>>
    ELSE <<"CONTEXT FROM FILE: ">> \o fs[1].name \o <<Separator>> \o fs[1].content
         \o FileContextUnjoined(Tail(fs))

\* files.map(file => `CONTEXT FROM FILE: ${file.name}\n\n---\n\n${file.content}`)
\*      .join('\n\n---\n\n')
RECURSIVE FileContext(_)
FileContext(fs) ==
    IF fs = <<>> THEN <<>>
    ELSE <<"CONTEXT FROM FILE: ">> \o fs[1].name \o <<Separator>> \o fs[1].content
         \o (IF Len(fs) > 1 THEN <<Separator>> ELSE <<>>)
         \o FileContext(Tail(fs))

\* `${fileContext}\n\n---\n\nQUESTION:\n${trimmedInput}`, or trimmedInput alone
ApiContent(trimmedInput, fs) ==
    IF Len(fs) > 0
    THEN FileContext(fs) \o <<Separator, "QUESTION:\n">> \o trimmedInput
    ELSE trimmedInput

ApiMessages(history, apiContent) ==
    <<SystemPrompt>> \o FewShotExamples
    \o [i \in 1..Len(history) |-> ApiView(history[i])]
    \o <<UserMessage(apiContent)>>

----------------------------------------------------------------------------
\* Tool descriptors and the chat-completion payload.

Tool(name, openapiPath, serverUrl) ==
    [type |-> "function", name |-> name, openapiPath |-> openapiPath,
     serverUrl |-> serverUrl]

\* tools.map(({ serverUrl, ...rest }) => rest)
WithoutServerUrl(ts) == [i \in 1..Len(ts) |-> [ts[i] EXCEPT !.serverUrl = <<>>]]

\* A payload that carries tools and tool_choice whatever the tool list.
PayloadWithToolsAlways(msgs, ts) ==
    [model |-> "chat", messages |-> msgs, temperature |-> "0.7",
     tools |-> WithoutServerUrl(ts), tool_choice |-> "auto"]

\* The payload of a chat-completion request: tools and tool_choice only with a
\* non-empty tool list.
Payload(msgs, ts) ==
    IF Len(ts) > 0
    THEN [model |-> "chat", messages |-> msgs, temperature |-> "0.7",
          tools |-> WithoutServerUrl(ts), tool_choice |-> "auto"]
    ELSE [model |-> "chat", messages |-> msgs, temperature |-> "0.7",
          tools |-> <<>>, tool_choice |-> "absent"]

----------------------------------------------------------------------------
\* Errors, as far as the handlers read them: error.message and, for an HTTP
\* error, error.response.data ("" when the error carries no response).

NetworkError == [message |-> "Network Error", data |-> ""]
HttpError == [message |-> "Request failed with status code 500", data |-> "server detail"]
TypeError == [message |-> "Cannot read properties of undefined", data |-> ""]
SyntaxError == [message |-> "Unexpected token in JSON", data |-> ""]
\* No error: the request was answered.
NoError == [message |-> "", data |-> ""]

\* The message the outer catch of sendMessage appends.
LLMErrorMessage(error) ==
    AssistantMessage(
        <<"Error: Could not connect to the LLM.", "\n",
          IF error.data # "" THEN error.data ELSE error.message>>, <<>>)

\* The message the catch around the second call appends.
SecondCallErrorMessage == AssistantMessage(<<"Error during second LLM call.">>, <<>>)

----------------------------------------------------------------------------
\* The tool dispatcher: the async function mapped over botMessage.tool_calls.

ToolCall(id, name, arguments) == [id |-> id, name |-> name, arguments |-> arguments]

\* tools.find(t => t.function && t.function.name === toolName): <<>> when none
ToolDef(ts, toolName) ==
    LET hits == {i \in 1..Len(ts) : ts[i].name = toolName}
    IN  IF hits = {} THEN <<>>
        ELSE <<ts[CHOOSE i \in hits : \A j \in hits : i <= j]>>

ServerUrlOf(toolDef) ==
    IF toolDef # <<>> /\ toolDef[1].serverUrl # <<>>
    THEN StripTrailingSlash(toolDef[1].serverUrl)
    ELSE <<"/mcpo">>

OpenapiPathOf(toolDef, toolName) ==
    IF toolDef # <<>> /\ toolDef[1].openapiPath # <<>>
    THEN toolDef[1].openapiPath
    ELSE <<"/">> \o toolName

\* const endpoints = [openapiPath, openapiPath.endsWith('/') ? openapiPath : openapiPath + '/']
Endpoints(openapiPath) ==
    <<openapiPath, IF EndsWithSlash(openapiPath) THEN openapiPath ELSE openapiPath \o <<"/">> >>

SuccessResult(toolCall) ==
    Msg("tool", <<"tool-data">>, <<>>, toolCall.id, toolCall.name)

\* ErrorResult with the bug of an error result that does not name its call.
ErrorResultWithoutId(toolCall, lastError) ==
    Msg("tool", <<"Error executing tool: ", lastError.message>>, <<>>,
        <<>>, toolCall.name)

ErrorResult(toolCall, lastError) ==
    Msg("tool", <<"Error executing tool: ", lastError.message>>, <<>>,
        toolCall.id, toolCall.name)

\* The async function up to its first await: JSON.parse of the arguments (a
\* throw rejects the promise), the resolution of the path, and the first POST.
StartPromise(toolCall, ts) ==
    IF toolCall.arguments = "notjson"
    THEN [st |-> "rejected", serverUrl |-> <<>>, endpoints |-> <<>>,
          posts |-> <<>>, value |-> Undefined]
    ELSE LET toolDef == ToolDef(ts, toolCall.name)
             serverUrl == ServerUrlOf(toolDef)
             endpoints == Endpoints(OpenapiPathOf(toolDef, toolCall.name))
         IN  [st |-> "pending", serverUrl |-> serverUrl, endpoints |-> endpoints,
              posts |-> <<serverUrl \o endpoints[1]>>, value |-> Undefined]

\* The async function after the answer to its POST in flight: return the
\* result, or try the next endpoint, or return the error result.
ResumePromise(p, toolCall, ok) ==
    IF ok
    THEN [p EXCEPT !.st = "fulfilled", !.value = SuccessResult(toolCall)]
    ELSE IF Len(p.posts) < Len(p.endpoints)
    THEN [p EXCEPT !.posts = Append(@, p.serverUrl \o p.endpoints[Len(p.posts) + 1])]
    ELSE [p EXCEPT !.st = "fulfilled", !.value = ErrorResult(toolCall, NetworkError)]

\* StartPromises with the bug of a sequential loop: only the first call is
\* started, the others wait for their turn.
StartOnlyFirst(toolCalls, ts) ==
    [i \in 1..Len(toolCalls) |->
        IF i = 1 THEN StartPromise(toolCalls[i], ts)
        ELSE [StartPromise(toolCalls[i], ts) EXCEPT !.posts = <<>>]]

\* botMessage.tool_calls.map(async (toolCall) => ...)
StartPromises(toolCalls, ts) ==
    [i \in 1..Len(toolCalls) |-> StartPromise(toolCalls[i], ts)]

\* Promise.all: rejects as soon as one promise is rejected, resolves once all
\* are fulfilled, to the values in the order of the promises.
AnyRejected(promises) == \E i \in 1..Len(promises) : promises[i].st = "rejected"

\* AllFulfilled with the bug of a join on the first finished call.
AnyFulfilled(promises) == \E i \in 1..Len(promises) : promises[i].st = "fulfilled"

AllFulfilled(promises) == \A i \in 1..Len(promises) : promises[i].st = "fulfilled"

\* PromiseAllValue with the bug of results collected as the calls finish.
ValuesInSettlingOrder(promises, order) ==
    [k \in 1..Len(order) |-> promises[order[k]].value]

PromiseAllValue(promises, order) == [i \in 1..Len(promises) |-> promises[i].value]

\* const messagesWithToolResults = [...apiMessages, botMessage, ...toolResults]
MessagesWithToolResults(msgs, bot, results) == msgs \o <<bot>> \o results

\* DispatchesFollowup with the bug of a tool loop: tool calls of the second
\* response are dispatched like those of the first.
DispatchesToolCalls(finalBotMessage) == Len(finalBotMessage.tool_calls) > 0

\* What the flow does with the second response's message: it is appended and
\* never dispatched.
DispatchesFollowup(finalBotMessage) == FALSE

----------------------------------------------------------------------------
\* What the environment can supply.

\* The texts the user types.
TypedTexts == { <<"h", "i", " ">> }

\* The tool sets a registry refresh can have left in the tools state: no tool,
\* or the tool w of one server, its path and server URL without or with a
\* trailing slash.
ToolSets ==
    { <<>>,
      <<Tool(<<"w">>, <<"/", "w">>, <<"http://s1">>)>>,
      <<Tool(<<"w">>, <<"/", "w", "/">>, <<"http://s1", "/">>)>> }

\* A tool call of a response: the tool w (registered or not, with the tool
\* set), and an arguments string that is JSON or is not.
CallShapes ==
    { [name |-> <<"w">>, arguments |-> "json"],
      [name |-> <<"w">>, arguments |-> "notjson"] }

\* The tool_calls lists of the first response of turn t; the endpoint gives
\* every call an id of its own.
CallLists(t) ==
    UNION { { [i \in 1..n |-> ToolCall(<<t, i>>, f[i].name, f[i].arguments)] :
              f \in [1..n -> CallShapes] } : n \in 1..MaxCalls }

Response(kind, error, message) == [kind |-> kind, error |-> error, message |-> message]

\* The request fails (no response, or an HTTP error status); the response
\* has no choices[0]; choices[0] has no message; or it has one.
FailedResponses ==
    { Response("error", HttpError, Undefined),
      Response("nochoices", TypeError, Undefined),
      Response("nomessage", TypeError, Undefined) }

InitialResponses(t) ==
    FailedResponses
    \cup { Response("message", NoError, AssistantMessage(<<"answer">>, <<>>)) }
    \cup { Response("message", NoError, AssistantMessage(<<>>, cl)) : cl \in CallLists(t) }

FollowupResponses(t) ==
    FailedResponses
    \cup { Response("message", NoError, AssistantMessage(<<"final answer">>, <<>>)),
           Response("message", NoError,
                    AssistantMessage(<<>>, <<ToolCall(<<t, 0>>, <<"w">>, "json")>>)) }

\* No schema is being processed.
NoSchema == [operations |-> <<>>, components |-> <<>>, done |-> FALSE, processed |-> <<>>]

\* No evaluation has been run: evaluationResults is null.
NoEvaluation == [st |-> "none", asked |-> <<>>, request |-> 0, results |-> <<>>]

----------------------------------------------------------------------------
\* The state after construction: an empty session; the tools state holds the
\* result of the registry refresh that ran at start.

Init ==
    /\ messages = <<>>
    /\ input = <<>>
    /\ files = <<>>
    /\ tools \in ToolSets
    /\ crashed = FALSE
    /\ turn = 0
    /\ phase = "idle"
    /\ apiMessages = <<>>
    /\ turnTools = <<>>
    /\ botMessage = Undefined
    /\ toolPromises = <<>>
    /\ doneOrder = <<>>
    /\ toolResults = <<>>
    /\ turnRequests = <<>>
    /\ turnResponses = <<>>
    /\ emittedToolCallIds = {}
    /\ mcpoServers = <<>>
    /\ storedServers = <<>>
    /\ newServerUrl = <<>>
    /\ testResults = <<>>
    /\ fetches = <<>>
    /\ agentTools = <<>>
    /\ enabledTools = <<>>
    /\ storedEnabled = <<>>
    /\ toolsFetch = "none"
    /\ isLoading = FALSE
    /\ agentRequests = <<>>
    /\ uploads = <<>>
    /\ evaluation = NoEvaluation
    /\ openapi = NoSchema
    /\ testing = <<>>
    /\ tests = <<>>

\* onChange of the text input: setInput(e.target.value)
setInput(text) ==
    /\ UNCHANGED otherVars
    /\ UNCHANGED <<settingsVars, agentVars>>
    /\ ~crashed
    /\ input' = text
    /\ UNCHANGED <<messages, files, tools, crashed, turn, phase, apiMessages,
                   turnTools, botMessage, toolPromises, doneOrder, toolResults,
                   turnRequests, turnResponses, emittedToolCallIds>>

\* startNewChat
startNewChat ==
    /\ UNCHANGED otherVars
    /\ UNCHANGED <<settingsVars, agentVars>>
    /\ ~crashed
    /\ messages' = <<>>
    /\ files' = <<>>
    /\ input' = <<>>
    /\ UNCHANGED <<tools, crashed, turn, phase, apiMessages, turnTools,
                   botMessage, toolPromises, doneOrder, toolResults,
                   turnRequests, turnResponses, emittedToolCallIds>>

\* A sendMessage without the test for an empty submission.
sendMessageUnguarded ==
    /\ UNCHANGED otherVars
    /\ UNCHANGED <<settingsVars, agentVars>>
    /\ ~crashed
    /\ phase \in {"idle", "done"}
    /\ turn < MaxTurns
    /\ LET trimmedInput == Trim(input)
           msgs == ApiMessages(messages, ApiContent(trimmedInput, files))
       IN  /\ messages' = Append(messages, UserMessage(trimmedInput))
           /\ input' = <<>>
           /\ files' = <<>>
           /\ turn' = turn + 1
           /\ phase' = "awaitInitial"
           /\ apiMessages' = msgs
           /\ turnTools' = tools
           /\ botMessage' = Undefined
           /\ toolPromises' = <<>>
           /\ doneOrder' = <<>>
           /\ toolResults' = <<>>
           /\ turnRequests' = <<Payload(msgs, tools)>>
           /\ turnResponses' = <<>>
           /\ UNCHANGED <<tools, crashed, emittedToolCallIds>>

\* sendMessage, up to the first await: nothing happens for an empty
\* submission; otherwise the user message is appended, the request is
\* assembled with the tools of this render and POSTed.
sendMessage ==
    /\ UNCHANGED otherVars
    /\ UNCHANGED <<settingsVars, agentVars>>
    /\ ~crashed
    /\ phase \in {"idle", "done"}
    /\ turn < MaxTurns
    /\ LET trimmedInput == Trim(input)
       IN  IF trimmedInput = <<>> /\ Len(files) = 0
           THEN UNCHANGED vars
           ELSE LET msgs == ApiMessages(messages, ApiContent(trimmedInput, files))
                IN  /\ messages' = Append(messages, UserMessage(trimmedInput))
                    /\ input' = <<>>
                    /\ files' = <<>>
                    /\ turn' = turn + 1
                    /\ phase' = "awaitInitial"
                    /\ apiMessages' = msgs
                    /\ turnTools' = tools
                    /\ botMessage' = Undefined
                    /\ toolPromises' = <<>>
                    /\ doneOrder' = <<>>
                    /\ toolResults' = <<>>
                    /\ turnRequests' = <<Payload(msgs, tools)>>
                    /\ turnResponses' = <<>>
                    /\ UNCHANGED <<tools, crashed, emittedToolCallIds>>

\* The outer catch of sendMessage: append the error message; the turn is over.
CatchLLMError(appended, error) ==
    /\ messages' = messages \o appended \o <<LLMErrorMessage(error)>>
    /\ phase' = "done"

\* The ids of the tool calls a response carries.
ToolCallIds(resp) ==
    {resp.message.tool_calls[i].id : i \in 1..Len(resp.message.tool_calls)}

\* sendMessage, from the answer to the first request to the next await.
initialResponse(resp) ==
    /\ UNCHANGED otherVars
    /\ UNCHANGED <<settingsVars, agentVars>>
    /\ phase = "awaitInitial"
    /\ turnResponses' = Append(turnResponses, resp)
    /\ emittedToolCallIds' = emittedToolCallIds \cup ToolCallIds(resp)
    /\ UNCHANGED <<input, files, tools, turn, apiMessages, turnTools,
                   toolResults, turnRequests>>
    /\ CASE resp.kind \in {"error", "nochoices"} ->
              \* axios.post rejected, or response.data.choices[0].message threw
              /\ CatchLLMError(<<>>, resp.error)
              /\ UNCHANGED <<crashed, botMessage, toolPromises, doneOrder>>
         [] resp.kind = "nomessage" ->
              \* botMessage is undefined: it is appended, botMessage.tool_calls throws
              /\ CatchLLMError(<<Undefined>>, resp.error)
              /\ crashed' = TRUE
              /\ UNCHANGED <<botMessage, toolPromises, doneOrder>>
         [] resp.kind = "message" /\ Len(resp.message.tool_calls) = 0 ->
              /\ botMessage' = resp.message
              /\ messages' = Append(messages, resp.message)
              /\ phase' = "done"
              /\ UNCHANGED <<crashed, toolPromises, doneOrder>>
         [] resp.kind = "message" /\ Len(resp.message.tool_calls) > 0 ->
              LET promises == StartPromises(resp.message.tool_calls, turnTools)
              IN  /\ botMessage' = resp.message
                  /\ toolPromises' = promises
                  /\ doneOrder' = SelectSeq([i \in 1..Len(promises) |-> i],
                                            LAMBDA i : promises[i].st = "rejected")
                  /\ crashed' = crashed
                  /\ IF AnyRejected(promises)
                     THEN CatchLLMError(<<resp.message>>, SyntaxError)
                     ELSE /\ messages' = Append(messages, resp.message)
                          /\ phase' = "dispatching"

\* One tool call's async function, from the answer to its POST in flight to
\* its next await or its return; when it was the last one Promise.all waited
\* for, sendMessage goes on: the results are appended and the second request
\* is POSTed.
toolResponse(i, ok) ==
    /\ UNCHANGED otherVars
    /\ UNCHANGED <<settingsVars, agentVars>>
    /\ i \in 1..Len(toolPromises)
    /\ toolPromises[i].st = "pending"
    /\ LET p == ResumePromise(toolPromises[i], botMessage.tool_calls[i], ok)
           promises == [toolPromises EXCEPT ![i] = p]
           order == IF p.st = "pending" THEN doneOrder ELSE Append(doneOrder, i)
           results == PromiseAllValue(promises, order)
       IN  /\ toolPromises' = promises
           /\ doneOrder' = order
           /\ IF phase = "dispatching" /\ AllFulfilled(promises)
              THEN /\ toolResults' = results
                   /\ messages' = messages \o results
                   /\ turnRequests' = Append(turnRequests,
                         Payload(MessagesWithToolResults(apiMessages, botMessage, results),
                                 turnTools))
                   /\ phase' = "awaitFollowup"
              ELSE UNCHANGED <<toolResults, messages, turnRequests, phase>>
    /\ UNCHANGED <<input, files, tools, crashed, turn, apiMessages, turnTools,
                   botMessage, turnResponses, emittedToolCallIds>>

\* sendMessage, from the answer to the second request to its end.
followupResponse(resp) ==
    /\ UNCHANGED otherVars
    /\ UNCHANGED <<settingsVars, agentVars>>
    /\ phase = "awaitFollowup"
    /\ turnResponses' = Append(turnResponses, resp)
    /\ emittedToolCallIds' = emittedToolCallIds \cup ToolCallIds(resp)
    /\ UNCHANGED <<input, files, tools, turn, apiMessages, turnTools, botMessage,
                   doneOrder, toolResults, turnRequests>>
    /\ CASE resp.kind \in {"error", "nochoices"} ->
              /\ messages' = Append(messages, SecondCallErrorMessage)
              /\ phase' = "done"
              /\ UNCHANGED <<crashed, toolPromises>>
         [] resp.kind = "nomessage" ->
              \* finalBotMessage is undefined, and is appended
              /\ messages' = Append(messages, Undefined)
              /\ phase' = "done"
              /\ crashed' = TRUE
              /\ UNCHANGED toolPromises
         [] resp.kind = "message" ->
              /\ messages' = Append(messages, resp.message)
              /\ IF DispatchesFollowup(resp.message)
                 THEN /\ phase' = "dispatching"
                      /\ toolPromises' = StartPromises(resp.message.tool_calls, turnTools)
                 ELSE /\ phase' = "done"
                      /\ UNCHANGED toolPromises
              /\ UNCHANGED crashed

Next ==
    \/ \E text \in TypedTexts : setInput(text)
    \/ startNewChat
    \/ sendMessage
    \/ \E resp \in InitialResponses(turn) : initialResponse(resp)
    \/ \E i \in 1..MaxCalls, ok \in BOOLEAN : toolResponse(i, ok)
    \/ \E resp \in FollowupResponses(turn) : followupResponse(resp)

Spec == Init /\ [][Next]_vars

----------------------------------------------------------------------------
\* Vocabulary of the properties.

\* The tool calls of the current batch, and its promises.
BatchCalls == botMessage.tool_calls

BatchSize == Len(toolPromises)

IsErrorResult(m) ==
    m.role = "tool" /\ Len(m.content) > 0 /\ m.content[1] = "Error executing tool: "

IsSuccessResult(m) == m.role = "tool" /\ ~IsErrorResult(m)

\* A call has failed when its promise was rejected or returned an error result.
CallFailed(i) ==
    \/ toolPromises[i].st = "rejected"
    \/ toolPromises[i].st = "fulfilled" /\ IsErrorResult(toolPromises[i].value)

\* Every call of the batch has finished, one way or the other.
BatchSettled ==
    /\ BatchSize > 0
    /\ \A i \in 1..BatchSize : toolPromises[i].st \in {"fulfilled", "rejected"}

\* An assistant message that bears an error.
IsErrorMessage(m) ==
    /\ m.role = "assistant"
    /\ Len(m.content) > 0
    /\ m.content[1] \in {"Error: Could not connect to the LLM.",
                         "Error during second LLM call."}

\* The messages a step appends to the history.
AppendedMessages == SubSeq(messages', Len(messages) + 1, Len(messages'))

\* A step that receives an answer of the chat endpoint.
ResponseStep == Len(turnResponses') = Len(turnResponses) + 1

ReceivedResponse == turnResponses'[Len(turnResponses')]

----------------------------------------------------------------------------
\* C1: if exactly one of the N tool calls of a batch fails, whatever made it
\* fail, the dispatcher still returns N results, N-1 success results and one
\* error result in the place of the failed call; the batch is not aborted.
C1_OneFailureKeepsAllResults ==
    ( /\ BatchSettled
      /\ Cardinality({i \in 1..BatchSize : CallFailed(i)}) = 1 )
    => /\ Len(toolResults) = BatchSize
       /\ \A i \in 1..BatchSize :
             /\ toolResults[i].tool_call_id = BatchCalls[i].id
             /\ CallFailed(i) => IsErrorResult(toolResults[i])
             /\ ~CallFailed(i) => IsSuccessResult(toolResults[i])

\* C2: all tool calls of one assistant message execute concurrently: as soon
\* as the batch exists, every call of it has sent its first POST (or has
\* failed on its arguments), so no call's start waits for another call.
C2_AllCallsStartedTogether ==
    \A i \in 1..BatchSize :
        toolPromises[i].st = "rejected" \/ Len(toolPromises[i].posts) >= 1

\* C2: a batch of at least two calls, all of them in flight at once.
C2_AllInFlight ==
    /\ BatchSize >= 2
    /\ \A i \in 1..BatchSize :
          toolPromises[i].st = "pending" /\ Len(toolPromises[i].posts) = 1

\* The tool messages of the current turn that are in the history.
TurnToolMessages ==
    {k \in 1..Len(messages) :
        /\ messages[k].role = "tool"
        /\ messages[k].tool_call_id # <<>>
        /\ messages[k].tool_call_id[1] = turn}

\* C3: the dispatcher joins on every call of the batch: the follow-up request
\* is not sent and no tool result is in the history before every call of the
\* batch has finished with a success or an error result.
C3_JoinOnEveryCall ==
    (Len(turnRequests) >= 2 \/ toolResults # <<>> \/ TurnToolMessages # {})
    => \A i \in 1..BatchSize :
          /\ toolPromises[i].st = "fulfilled"
          /\ toolPromises[i].value.role = "tool"

\* C3: the follow-up request of a batch of at least two calls has been sent.
C3_JoinedBatch ==
    /\ BatchSize >= 2
    /\ Len(turnRequests) = 2
    /\ TurnToolMessages # {}

\* The last n elements of a sequence.
LastN(seq, n) == SubSeq(seq, Len(seq) - n + 1, Len(seq))

\* C4: the results of a batch are returned, put into the follow-up request
\* and inserted into the history in the order of the tool_calls list, result
\* i belonging to tool_calls[i], whatever the order the calls finished in.
C4_ResultsInCallOrder ==
    toolResults # <<>>
    => /\ Len(toolResults) = Len(BatchCalls)
       /\ \A i \in 1..Len(toolResults) :
             toolResults[i].tool_call_id = BatchCalls[i].id
       /\ Len(turnRequests) >= 2
       /\ LastN(turnRequests[2].messages, Len(toolResults)) = toolResults
       /\ phase = "awaitFollowup" /\ messages # <<>>
          => /\ Len(messages) >= Len(toolResults)
             /\ LastN(messages, Len(toolResults)) = toolResults

\* C4: a batch whose second call finished before its first one, joined.
C4_FinishedOutOfOrder ==
    /\ toolResults # <<>>
    /\ Len(doneOrder) >= 2
    /\ doneOrder[1] > doneOrder[2]
    /\ phase = "awaitFollowup" /\ messages # <<>>

\* path with its trailing slash toggled: added if absent, removed if present
SlashToggled(path) ==
    IF EndsWithSlash(path) THEN StripTrailingSlash(path) ELSE path \o <<"/">>

\* C5: a call POSTs to the resolved path, retries once on failure against
\* the trailing-slash-toggled variant of that path, makes at most two
\* attempts, none after a success, and gives up with an error result after
\* the second failure.
C5_RetryOnToggledPath ==
    \A i \in 1..BatchSize :
        LET p == toolPromises[i]
            toolDef == ToolDef(turnTools, BatchCalls[i].name)
            base == ServerUrlOf(toolDef)
            path == OpenapiPathOf(toolDef, BatchCalls[i].name)
        IN  p.st # "rejected"
            => /\ Len(p.posts) \in {1, 2}
               /\ p.posts[1] = base \o path
               /\ Len(p.posts) = 2 => p.posts[2] = base \o SlashToggled(path)
               /\ (p.st = "fulfilled" /\ IsErrorResult(p.value)) => Len(p.posts) = 2

\* The states of a turn, and the moves between them.
TurnEdges ==
    { <<"idle", "awaitInitial">>, <<"done", "awaitInitial">>,
      <<"awaitInitial", "done">>, <<"awaitInitial", "dispatching">>,
      <<"dispatching", "awaitFollowup">>, <<"awaitFollowup", "done">>,
      <<"dispatching", "done">> }

\* A step in which the turn meets a fatal error: the chat request fails or
\* its response lacks choices[0].message, or the dispatch throws.
FatalErrorStep ==
    /\ ResponseStep
    /\ \/ ReceivedResponse.kind # "message"
       \/ \E i \in 1..Len(toolPromises') : toolPromises'[i].st = "rejected"

\* C6: a turn goes only awaitInitial -> done or awaitInitial -> dispatching
\* -> awaitFollowup -> done, and a fatal error in any of these states moves
\* it directly to done with an error-bearing assistant message appended.
C6_TurnStateMachine ==
    [][ /\ phase' # phase => <<phase, phase'>> \in TurnEdges
        /\ FatalErrorStep
           => /\ phase' = "done"
              /\ Len(messages') > Len(messages)
              /\ IsErrorMessage(messages'[Len(messages')]) ]_vars

\* C7: a turn makes at most two model invocations and dispatches at most one
\* batch, that of the first response: the message of the second response is
\* appended as the final output and never dispatched, tool calls or not.
C7_OneToolRound ==
    /\ Len(turnRequests) <= 2
    /\ Len(turnResponses) <= Len(turnRequests)
    /\ phase = "dispatching" => Len(turnResponses) = 1
    /\ BatchSize \in {0, Len(BatchCalls)}
    /\ (Len(turnResponses) = 2 /\ turnResponses[2].kind = "message")
       => /\ phase = "done"
          /\ messages # <<>> => messages[Len(messages)] = turnResponses[2].message

\* C7: a turn ended by a second response that itself carries tool calls.
C7_FinalMessageWithToolCalls ==
    /\ Len(turnResponses) = 2
    /\ turnResponses[2].kind = "message"
    /\ Len(turnResponses[2].message.tool_calls) > 0
    /\ messages # <<>>
    /\ phase = "done"

\* C8: when the first response carries tool calls, then once the calls have
\* finished a tool-role result of every call has been returned and the second
\* request has been sent, with the first request's messages extended by the
\* assistant message and those results, and with the same tools and
\* tool_choice.
C8_FollowupExtendsFirstRequest ==
    ( /\ Len(turnResponses) >= 1
      /\ turnResponses[1].kind = "message"
      /\ Len(turnResponses[1].message.tool_calls) > 0
      /\ BatchSettled )
    => /\ Len(toolResults) = Len(turnResponses[1].message.tool_calls)
       /\ \A i \in 1..Len(toolResults) : toolResults[i].role = "tool"
       /\ Len(turnRequests) = 2
       /\ turnRequests[2].messages =
             turnRequests[1].messages \o <<turnResponses[1].message>> \o toolResults
       /\ turnRequests[2].tools = turnRequests[1].tools
       /\ turnRequests[2].tool_choice = turnRequests[1].tool_choice

\* C9: in every history, each tool-role message carries the id of a tool call
\* the chat endpoint has emitted; and a tool-role message is appended only
\* with the id of a tool call of the assistant message received earlier in
\* the same turn.  Success results and error results alike.
C9_ToolMessagesAnswerEmittedCalls ==
    /\ [](\A k \in 1..Len(messages) :
            messages[k].role = "tool"
            => messages[k].tool_call_id \in emittedToolCallIds)
    /\ [][ \A k \in 1..Len(AppendedMessages) :
              AppendedMessages[k].role = "tool"
              => /\ turnResponses # <<>>
                 /\ AppendedMessages[k].tool_call_id \in ToolCallIds(turnResponses[1])
                 /\ AppendedMessages[k].tool_call_id[1] = turn ]_vars

\* C9: a history that holds an error result and a success result.
C9_ErrorAndSuccessResults ==
    /\ \E k \in 1..Len(messages) : IsErrorResult(messages[k])
    /\ \E k \in 1..Len(messages) : IsSuccessResult(messages[k])

\* C10: a failed model invocation (the request fails, or the response lacks
\* choices[0].message) is not retried, ends the turn, and appends exactly one
\* assistant-role error message to the history.
C10_FailedInvocationEndsTurn ==
    [][ (ResponseStep /\ ReceivedResponse.kind # "message")
        => /\ turnRequests' = turnRequests
           /\ phase' = "done"
           /\ Cardinality({k \in 1..Len(AppendedMessages) :
                              IsErrorMessage(AppendedMessages[k])}) = 1 ]_vars

----------------------------------------------------------------------------
\* The tool registry of the client that calls the tools itself: the provider
\* list of the settings and fetchAllTools, the effect that runs at mount and
\* after every change of the list.

MaxFetches == 3

\* An operation of an OpenAPI schema, in the order for..in visits
\* schema.paths and the methods of a path.
Operation(path, method, operationId) ==
    [path |-> path, method |-> method, operationId |-> operationId]

\* String.prototype.toLowerCase(), on a method name
ToLowerCase(method) ==
    CASE method = "POST" -> "post"
      [] method = "GET" -> "get"
      [] OTHER -> method

\* operationId.replace(/_post$/, '')
StripPostSuffix(id) ==
    IF Len(id) >= 2 /\ id[Len(id) - 1] = "_" /\ id[Len(id)] = "post"
    THEN SubSeq(id, 1, Len(id) - 2)
    ELSE id

\* s.replace(/_/g, '-')
Dashed(s) == [i \in 1..Len(s) |-> IF s[i] = "_" THEN "-" ELSE s[i]]

\* A name with the underscores replaced and no suffix taken off.
FunctionNameUnstripped(operationId) == Dashed(operationId)

FunctionName(operationId) == Dashed(StripPostSuffix(operationId))

\* processOpenAPISchema(schema).map(tool => ({ ...tool, serverUrl })): one
\* descriptor per POST operation, in schema order.
RECURSIVE ProcessedTools(_, _)
ProcessedTools(schema, serverUrl) ==
    IF schema = <<>> THEN <<>>
    ELSE (IF ToLowerCase(schema[1].method) = "post"
          THEN <<Tool(FunctionName(schema[1].operationId), schema[1].path, serverUrl)>>
          ELSE <<>>)
         \o ProcessedTools(Tail(schema), serverUrl)

\* The descriptor in full.  The requestBody of an operation: absent; without
\* a content['application/json']; or with one, whose schema holds the $ref
\* given (<<>> when it holds none).
RequestBody(present, json, ref) == [present |-> present, json |-> json, ref |-> ref]

\* An operation with everything processOpenAPISchema reads of it.
ToolInfo(path, method, operationId, description, summary, requestBody) ==
    [path |-> path, method |-> method, operationId |-> operationId,
     description |-> description, summary |-> summary, requestBody |-> requestBody]

\* An entry of schema.components.schemas; required may be missing.
ComponentSchema(properties, hasRequired, required) ==
    [properties |-> properties, hasRequired |-> hasRequired, required |-> required]

\* schemaRef.split('/').pop()
LastPiece(text) ==
    LET slashes == {i \in 1..Len(text) : text[i] = "/"}
    IN  IF slashes = {} THEN text
        ELSE LET last == CHOOSE i \in slashes : \A j \in slashes : j <= i
             IN  SubSeq(text, last + 1, Len(text))

\* let parameters = { type: 'object', properties: {}, required: [] }
DefaultParameters == [type |-> "object", properties |-> <<>>, required |-> <<>>]

\* The parameters of a tool: those of the component schema the request body
\* refers to, when there is one.
Parameters(requestBody, components) ==
    IF requestBody.present /\ requestBody.json /\ requestBody.ref # <<>>
    THEN LET schemaName == LastPiece(requestBody.ref)
         IN  IF schemaName \in DOMAIN components
             THEN [type |-> "object",
                   properties |-> components[schemaName].properties,
                   required |-> IF components[schemaName].hasRequired
                                THEN components[schemaName].required
                                ELSE <<>>]
             ELSE DefaultParameters
    ELSE DefaultParameters

\* toolInfo.description || toolInfo.summary
Description(toolInfo) ==
    IF toolInfo.description # <<>> THEN toolInfo.description ELSE toolInfo.summary

Descriptor(toolInfo, components) ==
    [type |-> "function",
     function |-> [name |-> FunctionName(toolInfo.operationId),
                   description |-> Description(toolInfo),
                   parameters |-> Parameters(toolInfo.requestBody, components)],
     openapiPath |-> toolInfo.path]

\* processOpenAPISchema(schema): one descriptor per POST operation.
RECURSIVE Processed(_, _)
Processed(operations, components) ==
    IF operations = <<>> THEN <<>>
    ELSE (IF ToLowerCase(operations[1].method) = "post"
          THEN <<Descriptor(operations[1], components)>>
          ELSE <<>>)
         \o Processed(Tail(operations), components)

\* The names seen.has() answers true for after the tools ts were visited.
SeenNames(ts) == {ts[i].name : i \in 1..Len(ts)}

\* No deduplication at all.
AllToolsKept(allTools) == allTools

\* A deduplication that keeps the last tool of a name.
RECURSIVE LastOccurrences(_)
LastOccurrences(allTools) ==
    IF allTools = <<>> THEN <<>>
    ELSE IF allTools[1].name \in SeenNames(Tail(allTools))
    THEN LastOccurrences(Tail(allTools))
    ELSE <<allTools[1]>> \o LastOccurrences(Tail(allTools))

\* The deduplication loop of fetchAllTools: a tool is pushed unless a tool of
\* its name was pushed before.
RECURSIVE UniqueTools(_)
UniqueTools(allTools) ==
    IF allTools = <<>> THEN <<>>
    ELSE LET before == UniqueTools(SubSeq(allTools, 1, Len(allTools) - 1))
             tool == allTools[Len(allTools)]
         IN  IF tool.name \in SeenNames(before) THEN before ELSE Append(before, tool)

\* The message fetchAllTools replaces the history by when it has no tool and
\* a provider failed.
ToolsErrorMessage ==
    [text |-> <<"Error: Could not load tools from any MCP server. Please check your settings.">>,
     sender |-> "bot"]

\* `${serverUrl.replace(/\/$/, '')}/openapi.json`
OpenapiUrl(serverUrl) == StripTrailingSlash(serverUrl) \o <<"/openapi.json">>

\* A call of fetchAllTools: the provider list of its render, the GETs it has
\* issued, what they were answered, its locals allTools and anyError and,
\* once it has finished, its uniqueTools and whether it reported the error.
Fetch(servers, gets, responses, allTools, anyError, done, uniqueTools, reportedError) ==
    [servers |-> servers, gets |-> gets, responses |-> responses,
     allTools |-> allTools, anyError |-> anyError, done |-> done,
     uniqueTools |-> uniqueTools, reportedError |-> reportedError]

\* The end of fetchAllTools, after the loop over the providers.
FinishFetch(f) ==
    LET uniqueTools == UniqueTools(f.allTools)
    IN  [f EXCEPT !.done = TRUE, !.uniqueTools = uniqueTools,
                  !.reportedError = f.anyError /\ Len(uniqueTools) = 0]

\* The head of the for..of loop: the GET to the next provider, or the end of
\* the loop when every provider has answered.
NextGet(f) ==
    IF Len(f.responses) < Len(f.servers)
    THEN [f EXCEPT !.gets = Append(@, OpenapiUrl(f.servers[Len(f.responses) + 1]))]
    ELSE FinishFetch(f)

\* fetchAllTools to its first await.
StartFetch(servers) == NextGet(Fetch(servers, <<>>, <<>>, <<>>, FALSE, FALSE, <<>>, FALSE))

\* A try block around the whole loop: the first failure ends the loop.
ResumeFetchUntilFailure(f, response) ==
    LET serverUrl == f.servers[Len(f.responses) + 1]
    IN  IF response.ok
        THEN NextGet([f EXCEPT !.responses = Append(@, response),
                               !.allTools = @ \o ProcessedTools(response.schema, serverUrl)])
        ELSE FinishFetch([f EXCEPT !.responses = Append(@, response),
                                   !.anyError = TRUE])

\* fetchAllTools from the answer to its pending GET to its next await: the try
\* block on success, the catch block on failure.
ResumeFetch(f, response) ==
    LET serverUrl == f.servers[Len(f.responses) + 1]
    IN  NextGet([f EXCEPT !.responses = Append(@, response),
                          !.allTools = IF response.ok
                                       THEN @ \o ProcessedTools(response.schema, serverUrl)
                                       ELSE @,
                          !.anyError = @ \/ ~response.ok])

\* A refresh that adds its tools to the ones already there.
SettleFetchMerging(f) ==
    IF f.done
    THEN /\ tools' = tools \o f.uniqueTools
         /\ messages' = IF f.reportedError THEN <<ToolsErrorMessage>> ELSE messages
    ELSE UNCHANGED <<tools, messages>>

\* What a fetchAllTools call that has just run does to the state: nothing
\* before its end, setTools(uniqueTools) and, on error without tools,
\* setMessages([...]) at its end.
SettleFetch(f) ==
    IF f.done
    THEN /\ tools' = f.uniqueTools
         /\ messages' = IF f.reportedError THEN <<ToolsErrorMessage>> ELSE messages
    ELSE UNCHANGED <<tools, messages>>

\* The provider URLs, one of them with a trailing slash.
ServerUrls == { <<"http://s1">>, <<"http://s2", "/">> }

\* What the user types as a new provider URL.
TypedUrls == { <<"http://s1">>, <<" ", "http://s2", "/">> }

\* The schemas a provider serves: the tool w beside a GET operation; the tool
\* v and two operations that both normalise to w; no POST operation.
Schemas ==
    { << Operation(<<"/", "w">>, "post", <<"w", "_", "post">>),
         Operation(<<"/", "w">>, "get", <<"w", "_", "get">>) >>,
      << Operation(<<"/", "v">>, "POST", <<"v", "_", "post">>),
         Operation(<<"/", "a", "/", "w">>, "post", <<"w">>),
         Operation(<<"/", "b", "/", "w">>, "post", <<"w", "_", "post">>) >>,
      << Operation(<<"/", "h">>, "get", <<"h">>) >> }

\* The answers to GET openapi.json: a schema, or a failure.
ProviderResponses ==
    { [ok |-> FALSE, schema |-> <<>>] } \cup { [ok |-> TRUE, schema |-> sc] : sc \in Schemas }

\* The provider lists the client starts with: the default, or a saved list.
InitialServers ==
    { <<<<"http://s1">>>>,
      << <<"http://s1">>, <<"http://s2", "/">> >>,
      << <<"http://s2", "/">>, <<"http://s1">> >> }

\* Array.prototype.includes
Includes(list, x) == \E i \in 1..Len(list) : list[i] = x

\* list.filter(u => u !== url)
Without(list, url) == SelectSeq(list, LAMBDA u : u # url)

\* { ...prev } with delete copy[url]: an object is a function of its keys
DeleteKey(map, key) == [k \in (DOMAIN map) \ {key} |-> map[k]]

\* The state after construction: the provider list is the default or the
\* saved one, and the mount effect has called fetchAllTools.
InitRegistry ==
    /\ messages = <<>>
    /\ input = <<>>
    /\ files = <<>>
    /\ tools = <<>>
    /\ crashed = FALSE
    /\ turn = 0
    /\ phase = "idle"
    /\ apiMessages = <<>>
    /\ turnTools = <<>>
    /\ botMessage = Undefined
    /\ toolPromises = <<>>
    /\ doneOrder = <<>>
    /\ toolResults = <<>>
    /\ turnRequests = <<>>
    /\ turnResponses = <<>>
    /\ emittedToolCallIds = {}
    /\ mcpoServers \in InitialServers
    /\ storedServers = mcpoServers
    /\ newServerUrl = <<>>
    /\ testResults = <<>>
    /\ fetches = <<StartFetch(mcpoServers)>>
    /\ agentTools = <<>>
    /\ enabledTools = <<>>
    /\ storedEnabled = <<>>
    /\ toolsFetch = "none"
    /\ isLoading = FALSE
    /\ agentRequests = <<>>
    /\ uploads = <<>>
    /\ evaluation = NoEvaluation
    /\ openapi = NoSchema
    /\ testing = <<>>
    /\ tests = <<>>

\* The answer to the pending GET of the k-th fetchAllTools call.
fetchResponse(k, response) ==
    /\ UNCHANGED otherVars
    /\ k \in 1..Len(fetches)
    /\ ~fetches[k].done
    /\ LET f == ResumeFetch(fetches[k], response)
       IN  /\ fetches' = [fetches EXCEPT ![k] = f]
           /\ SettleFetch(f)
    /\ UNCHANGED <<input, files, crashed, turnVars, mcpoServers, storedServers,
                   newServerUrl, testResults, agentVars>>

\* onChange of the URL input of the settings: setNewServerUrl(e.target.value)
setNewServerUrl(text) ==
    /\ UNCHANGED otherVars
    /\ newServerUrl' = text
    /\ UNCHANGED <<messages, input, files, tools, crashed, turnVars, mcpoServers,
                   storedServers, testResults, fetches, agentVars>>

\* The effect on [mcpoServers], after a handler has set the list to updated.
FetchAllToolsEffect(updated) ==
    LET f == StartFetch(updated)
    IN  /\ fetches' = Append(fetches, f)
        /\ SettleFetch(f)

\* handleAddServer without the trim and without the includes test: the typed
\* text is appended as it stands unless it is the empty string.
handleAddServerUntrimmed ==
    /\ UNCHANGED otherVars
    /\ Len(fetches) < MaxFetches
    /\ IF newServerUrl = <<>>
       THEN UNCHANGED vars
       ELSE LET updated == Append(mcpoServers, newServerUrl)
            IN  /\ mcpoServers' = updated
                /\ storedServers' = updated
                /\ newServerUrl' = <<>>
                /\ FetchAllToolsEffect(updated)
                /\ UNCHANGED <<input, files, crashed, turnVars, testResults,
                               agentVars>>

\* handleAddServer, and the effect its setMcpoServers triggers.
handleAddServer ==
    /\ UNCHANGED otherVars
    /\ Len(fetches) < MaxFetches
    /\ LET url == Trim(newServerUrl)
       IN  IF url = <<>> \/ Includes(mcpoServers, url)
           THEN UNCHANGED vars
           ELSE LET updated == Append(mcpoServers, url)
                IN  /\ mcpoServers' = updated
                    /\ storedServers' = updated
                    /\ newServerUrl' = <<>>
                    /\ FetchAllToolsEffect(updated)
                    /\ UNCHANGED <<input, files, crashed, turnVars, testResults,
                                   agentVars>>

\* handleRemoveServer, from the Remove button of a listed provider, and the
\* effect its setMcpoServers triggers.
handleRemoveServer(url) ==
    /\ UNCHANGED otherVars
    /\ Len(fetches) < MaxFetches
    /\ Includes(mcpoServers, url)
    /\ LET updated == Without(mcpoServers, url)
       IN  /\ mcpoServers' = updated
           /\ storedServers' = updated
           /\ testResults' = DeleteKey(testResults, url)
           /\ FetchAllToolsEffect(updated)
    /\ UNCHANGED <<input, files, crashed, turnVars, newServerUrl, agentVars>>

NextRegistry ==
    \/ \E k \in 1..MaxFetches, response \in ProviderResponses : fetchResponse(k, response)
    \/ \E text \in TypedUrls : setNewServerUrl(text)
    \/ handleAddServer
    \/ \E url \in ServerUrls : handleRemoveServer(url)

SpecRegistry == InitRegistry /\ [][NextRegistry]_vars

----------------------------------------------------------------------------
\* Properties of the registry refresh.

NoDuplicateNames(ts) == \A i, j \in 1..Len(ts) : ts[i].name = ts[j].name => i = j

FinishedFetches == {k \in 1..Len(fetches) : fetches[k].done}

\* C11: after any registry aggregation, whatever the provider schemas, no two
\* descriptors of the aggregated tool set (the result of the call, and the
\* tools state it is stored in) have the same name.
C11_NoDuplicateNames ==
    /\ NoDuplicateNames(tools)
    /\ \A k \in FinishedFetches : NoDuplicateNames(fetches[k].uniqueTools)

\* An aggregation has dropped a duplicate and its result is the tools state.
C11_DuplicateDropped ==
    \E k \in FinishedFetches :
        /\ Len(fetches[k].allTools) > Len(fetches[k].uniqueTools)
        /\ Len(tools) > 1
        /\ tools = fetches[k].uniqueTools

\* The POST operations of a schema that define the tool name.
DefiningOperations(schema, name) ==
    {n \in 1..Len(schema) : /\ ToLowerCase(schema[n].method) = "post"
                            /\ FunctionName(schema[n].operationId) = name}

\* The providers of the call f that answered with a schema defining name.
DefiningProviders(f, name) ==
    {i \in 1..Len(f.responses) :
        f.responses[i].ok /\ DefiningOperations(f.responses[i].schema, name) # {}}

Least(S) == CHOOSE n \in S : \A m \in S : n <= m

\* C12: of the descriptors of one name, the aggregation retains the one of the
\* provider that comes first in the configured list (its endpoint and its
\* invocation path), and the duplicates are dropped without an error.
C12_FirstProviderWins ==
    \A k \in FinishedFetches :
        LET f == fetches[k]
        IN  /\ \A n \in 1..Len(f.uniqueTools) :
                 LET tool == f.uniqueTools[n]
                     first == Least(DefiningProviders(f, tool.name))
                     schema == f.responses[first].schema
                 IN  /\ DefiningProviders(f, tool.name) # {}
                     /\ tool.serverUrl = f.servers[first]
                     /\ tool.openapiPath = schema[Least(DefiningOperations(schema, tool.name))].path
            /\ Len(f.allTools) > Len(f.uniqueTools) => ~f.reportedError

\* Two providers of one call have defined the tool w, and the call is over.
C12_TwoProvidersDefineW ==
    \E k \in FinishedFetches :
        /\ Cardinality(DefiningProviders(fetches[k], <<"w">>)) = 2
        /\ tools = fetches[k].uniqueTools

\* The providers of the call f whose fetch succeeded.
SucceededProviders(f) == {i \in 1..Len(f.responses) : f.responses[i].ok}

\* The names the schemas of the succeeded providers of f define.
NamesOffered(f) ==
    UNION { { FunctionName(f.responses[i].schema[n].operationId) :
              n \in {m \in 1..Len(f.responses[i].schema) :
                       ToLowerCase(f.responses[i].schema[m].method) = "post"} } :
            i \in SucceededProviders(f) }

\* C13: a refresh tolerates provider failures: whichever providers fail, the
\* tool set is exactly the deduplicated tools of the providers that succeeded
\* (every name they offer once, from a provider that succeeded), no fatal
\* error is reported while at least one provider succeeds, and the tool set
\* is empty when every provider fails.
C13_ToleratesProviderFailures ==
    \A k \in FinishedFetches :
        LET f == fetches[k]
        IN  /\ SeenNames(f.uniqueTools) = NamesOffered(f)
            /\ NoDuplicateNames(f.uniqueTools)
            /\ \A n \in 1..Len(f.uniqueTools) :
                 \E i \in SucceededProviders(f) : f.uniqueTools[n].serverUrl = f.servers[i]
            /\ SucceededProviders(f) # {} => ~f.reportedError
            /\ SucceededProviders(f) = {} => f.uniqueTools = <<>>

\* C14 as stated: the queries of a refresh run independently of each other,
\* so a refresh over a non-empty list has sent the query of every provider
\* from its start on, none waiting for another; and the refresh has its
\* result only when all of them have settled.
C14_QueriesRunIndependently ==
    \A k \in 1..Len(fetches) :
        /\ Len(fetches[k].gets) = Len(fetches[k].servers)
        /\ fetches[k].done => Len(fetches[k].responses) = Len(fetches[k].servers)

\* C14, amended: the queries of a refresh run one after the other in list
\* order: the query of a provider is sent when, and only when, every provider
\* before it has settled, by success or by failure; and the refresh has its
\* result exactly when all of them have settled.
C14_QueriesRunInListOrder ==
    \A k \in 1..Len(fetches) :
        LET f == fetches[k]
        IN  /\ Len(f.gets) <= Len(f.servers)
            /\ \A i \in 1..Len(f.gets) : f.gets[i] = OpenapiUrl(f.servers[i])
            /\ Len(f.gets) = IF f.done THEN Len(f.servers) ELSE Len(f.responses) + 1
            /\ f.done <=> Len(f.responses) = Len(f.servers)

\* The first provider of a refresh has failed and the second is being queried.
C14_SecondQueriedAfterFailure ==
    \E k \in 1..Len(fetches) :
        /\ Len(fetches[k].servers) = 2
        /\ Len(fetches[k].responses) = 1
        /\ ~fetches[k].responses[1].ok
        /\ Len(fetches[k].gets) = 2
        /\ ~fetches[k].done

----------------------------------------------------------------------------
\* The client of the agent service (the App that imports MessageList,
\* InputArea and SettingsModal): the tool groups it discovers from the
\* tools-api, the enablement map and its copy in localStorage, and the
\* request of a turn.  An object is modelled as the function of its keys, the
\* state {} of tools (no langgraph, no mcpo field) as the empty sequence.

\* The item of localStorage: absent (getItem returns null), or a text that is
\* the JSON of an object, given by its "key":value entries, or is no JSON.
StoredItem(present, parseable, entries) ==
    [present |-> present, parseable |-> parseable, entries |-> entries]

NoItem == StoredItem(FALSE, FALSE, {})

\* JSON.stringify of an enablement map
JsonStringify(map) ==
    StoredItem(TRUE, TRUE, {<<k, IF map[k] THEN "true" ELSE "false">> : k \in DOMAIN map})

\* The object JSON.parse returns for the JSON text of an object
JsonParse(item) ==
    [k \in {e[1] : e \in item.entries} |->
        (CHOOSE e \in item.entries : e[1] = k)[2] = "true"]

\* JSON.parse throws a SyntaxError on this item.
ParseThrows(item) == item.present /\ ~item.parseable

\* { ...enabledTools, [name]: value }
WithKey(map, name, value) ==
    [k \in (DOMAIN map) \cup {name} |-> IF k = name THEN value ELSE map[k]]

\* enabledTools[name], undefined read as false
Enabled(map, name) == name \in DOMAIN map /\ map[name]

\* A toggle that forgets the spread: the new map has the toggled key alone.
ToggledKeyAlone(map, name) == [k \in {name} |-> ~Enabled(map, name)]

\* A switch that can only be turned on.
SwitchedOn(map, name) == WithKey(map, name, TRUE)

\* const updatedEnabled = { ...enabledTools, [name]: !enabledTools[name] }
UpdatedEnabled(map, name) == WithKey(map, name, ~Enabled(map, name))

\* The groups the tools-api reports: { langgraph: [...], mcpo: [...] }, each
\* group given by its name.
ToolGroups(langgraph, mcpo) == [langgraph |-> langgraph, mcpo |-> mcpo]

Discoveries ==
    { ToolGroups(<<>>, <<>>),
      ToolGroups(<<"m1">>, <<"s1">>),
      ToolGroups(<<"m1">>, <<"s1", "s2">>) }

\* The names a session before this one may have saved in the map: s1, and
\* old, a group that is no longer discovered.
SavedNames == {"s1", "old"}

\* What localStorage['enabledTools'] holds at start: nothing, the map an
\* earlier session saved, or a text that is no JSON.
InitialStoredEnabled ==
    {NoItem, StoredItem(TRUE, FALSE, {})}
    \cup UNION { { JsonStringify(map) : map \in [keys -> BOOLEAN] } : keys \in SUBSET SavedNames }

\* Every group switched on, whatever the saved map says.
InitialEnabledIgnoringSaved(fetchedTools, savedEnabled) ==
    [k \in {fetchedTools.langgraph[i] : i \in 1..Len(fetchedTools.langgraph)}
           \cup {fetchedTools.mcpo[i] : i \in 1..Len(fetchedTools.mcpo)} |-> TRUE]

\* The map fetchTools sets: initialEnabled, every fetched module and server
\* mapped to true, when nothing is saved; the saved map otherwise.
FetchedEnabled(fetchedTools, savedEnabled) ==
    IF ~savedEnabled.present
    THEN [k \in {fetchedTools.langgraph[i] : i \in 1..Len(fetchedTools.langgraph)}
                \cup {fetchedTools.mcpo[i] : i \in 1..Len(fetchedTools.mcpo)} |-> TRUE]
    ELSE JsonParse(savedEnabled)

\* A filter on enabledTools[name] !== false: a group without a key is sent.
RECURSIVE NamesNotDisabled(_, _)
NamesNotDisabled(list, map) ==
    IF list = <<>> THEN <<>>
    ELSE (IF list[1] \notin DOMAIN map \/ map[list[1]] THEN <<list[1]>> ELSE <<>>)
         \o NamesNotDisabled(Tail(list), map)

\* No filter: every discovered group is sent.
AllNames(list, map) == list

\* list.filter(group => enabledTools[group.name]).map(group => group.name)
RECURSIVE EnabledNames(_, _)
EnabledNames(list, map) ==
    IF list = <<>> THEN <<>>
    ELSE (IF Enabled(map, list[1]) THEN <<list[1]>> ELSE <<>>)
         \o EnabledNames(Tail(list), map)

\* { role: 'system', content: systemPrompt }, with the default prompt
AgentSystemMessage == Msg("system", <<"You are a helpful assistant.">>, <<>>, <<>>, <<>>)

\* The payload POSTed to the agent service.
AgentPayload(history, apiContent, groups, map) ==
    [messages |-> <<AgentSystemMessage>> \o history \o <<UserMessage(apiContent)>>,
     enabled_tools |-> [langgraph |-> EnabledNames(groups.langgraph, map),
                        mcpo |-> EnabledNames(groups.mcpo, map)]]

\* The message the catch of fetchTools replaces the history by.
ToolsApiErrorMessage ==
    AssistantMessage(<<"Error: Could not load tools from the tools-api.">>, <<>>)

\* The message the catch of sendMessage appends.
AgentErrorMessage(error) ==
    AssistantMessage(
        <<"Error: Could not connect to the agent service.", "\n",
          IF error.data # "" THEN error.data ELSE error.message>>, <<>>)

\* A request to the agent service, and whether it has been answered.
AgentRequest(payload, answered) == [payload |-> payload, answered |-> answered]

\* The answers of the agent service: a response text, or a failure.
AgentResponses ==
    { Response("message", NoError, AssistantMessage(<<"agent answer">>, <<>>)),
      Response("error", HttpError, Undefined) }

\* The state after construction: the enablement map is read from
\* localStorage by the useState initializer, which throws on a text that is
\* no JSON (the App does not mount); otherwise the mount effect has called
\* fetchTools.
InitAgent ==
    /\ messages = <<>>
    /\ input = <<>>
    /\ files = <<>>
    /\ tools = <<>>
    /\ turn = 0
    /\ phase = "idle"
    /\ apiMessages = <<>>
    /\ turnTools = <<>>
    /\ botMessage = Undefined
    /\ toolPromises = <<>>
    /\ doneOrder = <<>>
    /\ toolResults = <<>>
    /\ turnRequests = <<>>
    /\ turnResponses = <<>>
    /\ emittedToolCallIds = {}
    /\ mcpoServers = <<>>
    /\ storedServers = <<>>
    /\ newServerUrl = <<>>
    /\ testResults = <<>>
    /\ fetches = <<>>
    /\ agentTools = <<>>
    /\ storedEnabled \in InitialStoredEnabled
    /\ crashed = ParseThrows(storedEnabled)
    /\ enabledTools = IF storedEnabled.present /\ storedEnabled.parseable
                      THEN JsonParse(storedEnabled)
                      ELSE <<>>
    /\ toolsFetch = IF crashed THEN "none" ELSE "pending"
    /\ isLoading = FALSE
    /\ agentRequests = <<>>
    /\ uploads = <<>>
    /\ evaluation = NoEvaluation
    /\ openapi = NoSchema
    /\ testing = <<>>
    /\ tests = <<>>

\* fetchTools after its await, when the tools-api has answered: the try block,
\* or the catch block when JSON.parse throws.
fetchToolsResponse(fetchedTools) ==
    /\ UNCHANGED otherVars
    /\ ~crashed
    /\ toolsFetch = "pending"
    /\ agentTools' = fetchedTools
    /\ IF ParseThrows(storedEnabled)
       THEN /\ messages' = <<ToolsApiErrorMessage>>
            /\ toolsFetch' = "failed"
            /\ UNCHANGED <<enabledTools, storedEnabled>>
       ELSE /\ enabledTools' = FetchedEnabled(fetchedTools, storedEnabled)
            /\ storedEnabled' = IF ~storedEnabled.present
                                THEN JsonStringify(enabledTools')
                                ELSE storedEnabled
            /\ toolsFetch' = "done"
            /\ UNCHANGED messages
    /\ UNCHANGED <<input, files, tools, crashed, turnVars, settingsVars, isLoading,
                   agentRequests>>

\* fetchTools after its await, when the GET has failed: the catch block.
fetchToolsFailure ==
    /\ UNCHANGED otherVars
    /\ ~crashed
    /\ toolsFetch = "pending"
    /\ messages' = <<ToolsApiErrorMessage>>
    /\ toolsFetch' = "failed"
    /\ UNCHANGED <<input, files, tools, crashed, turnVars, settingsVars, agentTools,
                   enabledTools, storedEnabled, isLoading, agentRequests>>

\* A toggle of a module that is not written to storage.
handleToggleModuleUnsaved(moduleName) ==
    /\ UNCHANGED otherVars
    /\ ~crashed
    /\ agentTools # <<>>
    /\ Includes(agentTools.langgraph, moduleName)
    /\ enabledTools' = UpdatedEnabled(enabledTools, moduleName)
    /\ UNCHANGED <<messages, input, files, tools, crashed, turnVars, settingsVars,
                   agentTools, storedEnabled, toolsFetch, isLoading, agentRequests>>

\* handleToggleModule, from the switch of a listed module
handleToggleModule(moduleName) ==
    /\ UNCHANGED otherVars
    /\ ~crashed
    /\ agentTools # <<>>
    /\ Includes(agentTools.langgraph, moduleName)
    /\ LET updatedEnabled == UpdatedEnabled(enabledTools, moduleName)
       IN  /\ enabledTools' = updatedEnabled
           /\ storedEnabled' = JsonStringify(updatedEnabled)
    /\ UNCHANGED <<messages, input, files, tools, crashed, turnVars, settingsVars,
                   agentTools, toolsFetch, isLoading, agentRequests>>

\* handleToggleServer, from the switch of a listed server
handleToggleServer(serverName) ==
    /\ UNCHANGED otherVars
    /\ ~crashed
    /\ agentTools # <<>>
    /\ Includes(agentTools.mcpo, serverName)
    /\ LET updatedEnabled == UpdatedEnabled(enabledTools, serverName)
       IN  /\ enabledTools' = updatedEnabled
           /\ storedEnabled' = JsonStringify(updatedEnabled)
    /\ UNCHANGED <<messages, input, files, tools, crashed, turnVars, settingsVars,
                   agentTools, toolsFetch, isLoading, agentRequests>>

\* sendMessage of this client, up to its await: nothing happens for an empty
\* submission; otherwise the user message is appended and the payload is
\* assembled from the tools and enabledTools of this render and POSTed.  Before
\* the tools are loaded tools.langgraph is undefined, the filter throws and
\* the catch and finally blocks run at once.
SendMessageCall ==
    /\ ~crashed
    /\ turn < MaxTurns
    /\ LET trimmedInput == Trim(input)
           currentMessages == Append(messages, UserMessage(trimmedInput))
           apiContent == ApiContent(trimmedInput, files)
       IN  IF trimmedInput = <<>> /\ Len(files) = 0
           THEN UNCHANGED <<messages, input, files, tools, crashed, turnVars,
                            settingsVars, agentVars>>
           ELSE /\ input' = <<>>
                /\ files' = <<>>
                /\ turn' = turn + 1
                /\ IF agentTools = <<>>
                   THEN /\ messages' = Append(currentMessages, AgentErrorMessage(TypeError))
                        /\ isLoading' = FALSE
                        /\ UNCHANGED agentRequests
                   ELSE /\ messages' = currentMessages
                        /\ isLoading' = TRUE
                        /\ agentRequests' =
                             Append(agentRequests,
                                    AgentRequest(AgentPayload(messages, apiContent,
                                                              agentTools, enabledTools),
                                                 FALSE))
                /\ UNCHANGED <<tools, crashed, phase, apiMessages, turnTools, botMessage,
                               toolPromises, doneOrder, toolResults, turnRequests,
                               turnResponses, emittedToolCallIds, settingsVars,
                               agentTools, enabledTools, storedEnabled, toolsFetch>>

\* sendMessage, from the send button or the Enter key.
sendMessageToAgent ==
    /\ UNCHANGED otherVars
    /\ SendMessageCall

\* const testQueries
TestQueries ==
    << <<"What's the weather in New York and London?">>,
       <<"Summarize the following articles: https://www.wired.com/ and https://www.theverge.com/">>,
       <<"Get the top headlines from Hacker News and Reddit's /r/programming subreddit.">>,
       <<"Translate 'hello world' to both Spanish and French.">> >>

\* What the promise of sendMessage resolves to: the function has no return
\* statement with a value.
SendMessageReturn == Undefined

\* evaluate, from the moment its await of sendMessage(query) yields response
\* to its next await, its return or its throw: response.tool_calls throws a
\* TypeError on undefined; otherwise the verdict of the query is recorded.
EvaluateResume(ev, response) ==
    IF response = Undefined
    THEN [ev EXCEPT !.st = "rejected"]
    ELSE LET query == ev.asked[Len(ev.asked)]
             parallel == Len(response.tool_calls) > 1
             results == Append(ev.results,
                               [query |-> query,
                                verdict |-> IF parallel THEN "PASS" ELSE "FAIL"])
         IN  [ev EXCEPT !.results = results,
                        !.st = IF Len(ev.asked) = Len(TestQueries) THEN "resolved" ELSE "next"]

\* runEvaluation: evaluate(sendMessage) calls sendMessage(testQueries[0]) and
\* awaits it.  sendMessage has no parameter, the query is dropped; when it
\* returns without having awaited anything, evaluate goes on at once.
runEvaluation ==
    /\ evaluation.st = "none"
    /\ SendMessageCall
    /\ LET ev == [NoEvaluation EXCEPT !.st = "awaiting", !.asked = <<TestQueries[1]>>]
       IN  evaluation' = IF Len(agentRequests') > Len(agentRequests)
                         THEN [ev EXCEPT !.request = Len(agentRequests')]
                         ELSE EvaluateResume(ev, SendMessageReturn)
    /\ UNCHANGED <<uploads, openapi, testVars>>

\* An answer handled without the finally block: isLoading is left as it is.
agentResponseWithoutFinally(k, resp) ==
    /\ UNCHANGED <<uploads, openapi, evaluation, testVars>>
    /\ ~crashed
    /\ k \in 1..Len(agentRequests)
    /\ ~agentRequests[k].answered
    /\ agentRequests' = [agentRequests EXCEPT ![k].answered = TRUE]
    /\ messages' = Append(messages, IF resp.kind = "message" THEN resp.message
                                    ELSE AgentErrorMessage(resp.error))
    /\ UNCHANGED <<input, files, tools, crashed, turnVars, settingsVars, agentTools,
                   enabledTools, storedEnabled, toolsFetch, isLoading>>

\* sendMessage of this client after its await: the answer of the agent
\* service to the k-th request is appended, or the error message is, and the
\* finally block clears isLoading.
agentResponse(k, resp) ==
    /\ UNCHANGED <<uploads, openapi, testVars>>
    /\ evaluation' = IF evaluation.st = "awaiting" /\ evaluation.request = k
                     THEN EvaluateResume(evaluation, SendMessageReturn)
                     ELSE evaluation
    /\ ~crashed
    /\ k \in 1..Len(agentRequests)
    /\ ~agentRequests[k].answered
    /\ agentRequests' = [agentRequests EXCEPT ![k].answered = TRUE]
    /\ messages' = Append(messages, IF resp.kind = "message" THEN resp.message
                                    ELSE AgentErrorMessage(resp.error))
    /\ isLoading' = FALSE
    /\ UNCHANGED <<input, files, tools, crashed, turnVars, settingsVars, agentTools,
                   enabledTools, storedEnabled, toolsFetch>>

\* The names of the switches the settings can show.
GroupNames == {"m1", "s1", "s2"}

NextAgent ==
    \/ \E text \in TypedTexts : setInput(text)
    \/ startNewChat
    \/ sendMessageToAgent
    \/ \E k \in 1..MaxTurns, resp \in AgentResponses : agentResponse(k, resp)
    \/ \E fetchedTools \in Discoveries : fetchToolsResponse(fetchedTools)
    \/ fetchToolsFailure
    \/ \E moduleName \in GroupNames : handleToggleModule(moduleName)
    \/ \E serverName \in GroupNames : handleToggleServer(serverName)

SpecAgent == InitAgent /\ [][NextAgent]_vars

\* The agent client with its Run Evaluation button.
NextEvaluate ==
    \/ \E text \in TypedTexts : setInput(text)
    \/ startNewChat
    \/ sendMessageToAgent
    \/ runEvaluation
    \/ \E k \in 1..MaxTurns, resp \in AgentResponses : agentResponse(k, resp)
    \/ \E fetchedTools \in Discoveries : fetchToolsResponse(fetchedTools)
    \/ fetchToolsFailure

SpecEvaluate == InitAgent /\ [][NextEvaluate]_vars

----------------------------------------------------------------------------
\* Properties of the enablement map.

Elements(list) == {list[i] : i \in 1..Len(list)}

\* The names of the enabled-tools list of a payload.
SentNames(payload) ==
    Elements(payload.enabled_tools.langgraph) \cup Elements(payload.enabled_tools.mcpo)

\* The step sends a request to the agent service.
SendsRequest == Len(agentRequests') > Len(agentRequests)

SentPayload == agentRequests'[Len(agentRequests')].payload

\* C15: the enabled-tools list sent with the request of a turn contains the
\* name of a module or server only if the enablement map, as it is when the
\* request is sent, maps that name to true.
C15_OnlyEnabledGroupsSent ==
    [][SendsRequest =>
         \A name \in SentNames(SentPayload) :
             name \in DOMAIN enabledTools /\ enabledTools[name] = TRUE]_vars

\* A request has been sent with one of the three discovered groups enabled.
C15_SentWithSomeGroupsDisabled ==
    /\ agentTools = ToolGroups(<<"m1">>, <<"s1", "s2">>)
    /\ \E k \in 1..Len(agentRequests) :
         agentRequests[k].payload.enabled_tools = [langgraph |-> <<>>, mcpo |-> <<"s2">>]

\* The names of the groups of the tools state: none before the discovery.
Discovered(groups) ==
    IF groups = <<>> THEN {}
    ELSE Elements(groups.langgraph) \cup Elements(groups.mcpo)

\* The step in which fetchTools takes the discovered groups in.
DiscoveryStep == toolsFetch = "pending" /\ toolsFetch' = "done"

\* C16: when the groups are discovered and no enablement map is persisted,
\* every discovered group (module or server) is set to enabled, no other key
\* is set, and that map is persisted; when a map is persisted, it is loaded
\* as it is (no key added, removed or flipped) and the persisted copy is not
\* rewritten.
C16_InitializedOnDiscovery ==
    [][DiscoveryStep =>
         IF ~storedEnabled.present
         THEN /\ DOMAIN enabledTools' = Discovered(agentTools')
              /\ \A name \in Discovered(agentTools') : enabledTools'[name] = TRUE
              /\ storedEnabled'.present /\ storedEnabled'.parseable
              /\ storedEnabled'.entries = {<<name, "true">> : name \in Discovered(agentTools')}
         ELSE /\ DOMAIN enabledTools' = {e[1] : e \in storedEnabled.entries}
              /\ \A e \in storedEnabled.entries : enabledTools'[e[1]] = (e[2] = "true")
              /\ storedEnabled' = storedEnabled]_vars

\* The first discovery of three groups has enabled and persisted them all.
C16_ThreeGroupsInitialized ==
    /\ toolsFetch = "done"
    /\ agentTools = ToolGroups(<<"m1">>, <<"s1", "s2">>)
    /\ DOMAIN enabledTools = {"m1", "s1", "s2"}
    /\ \A name \in DOMAIN enabledTools : enabledTools[name]
    /\ storedEnabled.entries = {<<"m1", "true">>, <<"s1", "true">>, <<"s2", "true">>}

\* The step is a toggle of the group name: its value is negated (an absent
\* key reads as false), every other key keeps its value, and the new map is
\* what storage holds after the step.
ToggleEffect(name) ==
    /\ DOMAIN enabledTools' = (DOMAIN enabledTools) \cup {name}
    /\ enabledTools'[name] = ~Enabled(enabledTools, name)
    /\ \A k \in (DOMAIN enabledTools) \ {name} : enabledTools'[k] = enabledTools[k]
    /\ storedEnabled'.present /\ storedEnabled'.parseable
    /\ storedEnabled'.entries =
         {<<k, IF enabledTools'[k] THEN "true" ELSE "false">> : k \in DOMAIN enabledTools'}

\* C17: a toggle replaces the value of its group by the negation, leaves every
\* other key of the enablement map as it is and writes the new map to storage
\* in the same step; and no step but the first-time initialisation and a
\* toggle changes the enablement map or its stored copy.
C17_OnlyToggleAndFirstInitChangeMap ==
    [][enabledTools' # enabledTools \/ storedEnabled' # storedEnabled =>
         \/ DiscoveryStep /\ ~storedEnabled.present
         \/ \E name \in Discovered(agentTools) : ToggleEffect(name)]_vars

\* The module m1, absent from the saved map, has been toggled on and off
\* again beside the saved key old.
C17_ToggledBesideSavedKey ==
    /\ "old" \in DOMAIN enabledTools
    /\ "m1" \in DOMAIN enabledTools
    /\ ~enabledTools["m1"]
    /\ <<"m1", "false">> \in storedEnabled.entries

\* C18: a group that a persisted map does not hold is not given a key when
\* the map is loaded, and a group without a key is not sent in the
\* enabled-tools list (it gets its key from a toggle); the keys of groups that
\* are not discovered stay in the map with their values, and are never sent.
C18_AbsentAndStaleGroupsNotSent ==
    [][/\ SendsRequest =>
            SentNames(SentPayload) \subseteq (Discovered(agentTools) \cap DOMAIN enabledTools)
       /\ DiscoveryStep /\ storedEnabled.present =>
            \A name \in Discovered(agentTools') :
                name \in DOMAIN enabledTools' => \E e \in storedEnabled.entries : e[1] = name
       /\ \A k \in DOMAIN enabledTools :
            /\ k \in DOMAIN enabledTools'
            /\ k \notin Discovered(agentTools') => enabledTools'[k] = enabledTools[k]]_vars

\* A request was sent while the map held the enabled key of the group old,
\* which is not discovered, and no key of the discovered module m1.
C18_SentWithStaleAndAbsentGroup ==
    /\ agentTools = ToolGroups(<<"m1">>, <<"s1", "s2">>)
    /\ DOMAIN enabledTools = {"old", "s1"}
    /\ enabledTools["old"] /\ enabledTools["s1"]
    /\ Len(agentRequests) = 1
    /\ agentRequests[1].payload.enabled_tools = [langgraph |-> <<>>, mcpo |-> <<"s1">>]

\* C19: with a persisted enablement entry that cannot be parsed the client
\* starts all the same: the entry counts as absent, so the start does not
\* fail, no error message is shown for it, and once the groups are discovered
\* the storage holds the default map.
C19_UnreadableEntryTreatedAsAbsent ==
    /\ ~crashed
    /\ toolsFetch # "none"
    /\ toolsFetch = "done" => storedEnabled.present /\ storedEnabled.parseable

----------------------------------------------------------------------------
\* The request of a turn.

\* The step submits a turn of the client that calls the tools itself.
SubmitsTurn == turn' = turn + 1 /\ Len(turnRequests') = 1

\* C20: the messages of the request of a turn are, in this order, the system
\* message, the few-shot messages, every message of the history as it was
\* before the turn, with its role, content, tool_calls and tool_call_id, and
\* last the new user message.
C20_RequestMessageSequence ==
    [][SubmitsTurn =>
         LET sent == turnRequests'[1].messages
             shots == Len(FewShotExamples)
             n == Len(messages)
         IN  /\ Len(sent) = 1 + shots + n + 1
             /\ sent[1] = SystemPrompt
             /\ \A j \in 1..shots : sent[1 + j] = FewShotExamples[j]
             /\ \A i \in 1..n :
                  /\ sent[1 + shots + i].role = messages[i].role
                  /\ sent[1 + shots + i].content = messages[i].content
                  /\ sent[1 + shots + i].tool_calls = messages[i].tool_calls
                  /\ sent[1 + shots + i].tool_call_id = messages[i].tool_call_id
             /\ sent[Len(sent)] = UserMessage(ApiContent(Trim(input), files))]_vars

----------------------------------------------------------------------------
\* Attachments: handleFileChange starts one FileReader per selected file, and
\* the files join the attachment list when the last of them has loaded.

MaxUploads == 2

\* A handleFileChange call: its selectedFiles, its newFiles, and the indices
\* of the selected files whose onload has run.
Upload(selectedFiles, newFiles, loaded) ==
    [selectedFiles |-> selectedFiles, newFiles |-> newFiles, loaded |-> loaded]

\* The files the user can select: a plain one, one whose content holds the
\* line "---" between blank lines, and an empty one named like the first.
PlainFile == File(<<"f.txt">>, <<"ABC">>)

RuledFile == File(<<"g.md">>, <<"D", Separator, "E">>)

EmptyFile == File(<<"f.txt">>, <<>>)

Selections == { <<PlainFile>>, <<RuledFile>>, <<PlainFile, RuledFile>>, <<RuledFile, EmptyFile>> }

\* The state after construction, with no turn submitted.
InitAttach ==
    /\ messages = <<>>
    /\ input = <<>>
    /\ files = <<>>
    /\ tools \in ToolSets
    /\ crashed = FALSE
    /\ turn = 0
    /\ phase = "idle"
    /\ apiMessages = <<>>
    /\ turnTools = <<>>
    /\ botMessage = Undefined
    /\ toolPromises = <<>>
    /\ doneOrder = <<>>
    /\ toolResults = <<>>
    /\ turnRequests = <<>>
    /\ turnResponses = <<>>
    /\ emittedToolCallIds = {}
    /\ mcpoServers = <<>>
    /\ storedServers = <<>>
    /\ newServerUrl = <<>>
    /\ testResults = <<>>
    /\ fetches = <<>>
    /\ agentTools = <<>>
    /\ enabledTools = <<>>
    /\ storedEnabled = <<>>
    /\ toolsFetch = "none"
    /\ isLoading = FALSE
    /\ agentRequests = <<>>
    /\ uploads = <<>>
    /\ evaluation = NoEvaluation
    /\ openapi = NoSchema
    /\ testing = <<>>
    /\ tests = <<>>

\* handleFileChange: a reader is started for every selected file.
handleFileChange(selectedFiles) ==
    /\ ~crashed
    /\ Len(uploads) < MaxUploads
    /\ uploads' = Append(uploads, Upload(selectedFiles, <<>>, {}))
    /\ UNCHANGED <<messages, input, files, tools, crashed, turnVars, settingsVars,
                   agentVars, evaluation, openapi, testVars>>

\* A reader.onload that adds its own file to the list as soon as it is read.
readerOnloadEach(k, i) ==
    /\ ~crashed
    /\ k \in 1..Len(uploads)
    /\ i \in 1..Len(uploads[k].selectedFiles)
    /\ i \notin uploads[k].loaded
    /\ uploads' = [uploads EXCEPT ![k].newFiles = Append(@, uploads[k].selectedFiles[i]),
                                  ![k].loaded = @ \cup {i}]
    /\ files' = Append(files, uploads[k].selectedFiles[i])
    /\ UNCHANGED <<messages, input, tools, crashed, turnVars, settingsVars, agentVars,
                   evaluation, openapi, testVars>>

\* reader.onload of the i-th file of the k-th handleFileChange call
readerOnload(k, i) ==
    /\ ~crashed
    /\ k \in 1..Len(uploads)
    /\ i \in 1..Len(uploads[k].selectedFiles)
    /\ i \notin uploads[k].loaded
    /\ LET newFiles == Append(uploads[k].newFiles, uploads[k].selectedFiles[i])
       IN  /\ uploads' = [uploads EXCEPT ![k].newFiles = newFiles,
                                         ![k].loaded = @ \cup {i}]
           /\ files' = IF Len(newFiles) = Len(uploads[k].selectedFiles)
                       THEN files \o newFiles
                       ELSE files
    /\ UNCHANGED <<messages, input, tools, crashed, turnVars, settingsVars, agentVars,
                   evaluation, openapi, testVars>>

\* removeFile, from the button of a listed attachment
removeFile(fileNameToRemove) ==
    /\ ~crashed
    /\ \E n \in 1..Len(files) : files[n].name = fileNameToRemove
    /\ files' = SelectSeq(files, LAMBDA file : file.name # fileNameToRemove)
    /\ UNCHANGED <<messages, input, tools, crashed, turnVars, settingsVars, agentVars,
                   otherVars>>

NextAttach ==
    \/ \E text \in TypedTexts : setInput(text)
    \/ \E selectedFiles \in Selections : handleFileChange(selectedFiles)
    \/ \E k \in 1..MaxUploads, i \in 1..2 : readerOnload(k, i)
    \/ \E name \in {<<"f.txt">>, <<"g.md">>} : removeFile(name)
    \/ startNewChat
    \/ sendMessage

SpecAttach == InitAttach /\ [][NextAttach]_vars

----------------------------------------------------------------------------
\* Properties of the attachment splicing.

\* The block of one file in the user content.
Block(file) == <<"CONTEXT FROM FILE: ">> \o file.name \o <<"\n\n---\n\n">> \o file.content

\* The texts of a list, with the text sep between two neighbours.
RECURSIVE Joined(_, _)
Joined(texts, sep) ==
    IF Len(texts) = 0 THEN <<>>
    ELSE IF Len(texts) = 1 THEN texts[1]
    ELSE texts[1] \o sep \o Joined(Tail(texts), sep)

\* The user content of the request the step sends.
SentUserMessage == turnRequests'[1].messages[Len(turnRequests'[1].messages)]

\* C21: with attachments the user content of the request is the blocks
\* "CONTEXT FROM FILE: {name}\n\n---\n\n{content}" of the files, in the order
\* of the attachment list and joined by "\n\n---\n\n", followed by
\* "\n\n---\n\nQUESTION:\n" and the trimmed typed text; without attachments
\* it is the trimmed typed text alone.
C21_UserContentTemplate ==
    [][SubmitsTurn =>
         /\ SentUserMessage.role = "user"
         /\ SentUserMessage.content =
              IF Len(files) > 0
              THEN Joined([i \in 1..Len(files) |-> Block(files[i])], <<"\n\n---\n\n">>)
                   \o <<"\n\n---\n\n", "QUESTION:\n">> \o Trim(input)
              ELSE Trim(input)]_vars

\* The request of "hi " with the attachments f.txt and g.md has been sent.
C21_SentTwoFiles ==
    /\ Len(turnRequests) = 1
    /\ turnRequests[1].messages[Len(turnRequests[1].messages)].content =
         << "CONTEXT FROM FILE: ", "f.txt", "\n\n---\n\n", "ABC", "\n\n---\n\n",
            "CONTEXT FROM FILE: ", "g.md", "\n\n---\n\n", "D", "\n\n---\n\n", "E",
            "\n\n---\n\n", "QUESTION:\n", "h", "i" >>

\* The pieces of a text between the occurrences of the separator.
RECURSIVE Split(_, _)
Split(text, sep) ==
    IF \A n \in 1..Len(text) : text[n] # sep THEN <<text>>
    ELSE LET first == CHOOSE n \in 1..Len(text) :
                          text[n] = sep /\ \A m \in 1..(n - 1) : text[m] # sep
         IN  <<SubSeq(text, 1, first - 1)>> \o Split(SubSeq(text, first + 1, Len(text)), sep)

\* What a consumer recovers from the pieces: a file for every two pieces
\* before the last one (the name after "CONTEXT FROM FILE: ", the content),
\* and the question after "QUESTION:\n" in the last one.
Recovered(content) ==
    LET pieces == Split(content, "\n\n---\n\n")
    IN  [files |-> [j \in 1..((Len(pieces) - 1) \div 2) |->
                       File(Tail(pieces[2 * j - 1]), pieces[2 * j])],
         question |-> Tail(pieces[Len(pieces)])]

\* C22: the splicing round-trips: splitting the user content of a request
\* with attachments on "\n\n---\n\n" recovers the attachments (as many files,
\* with the same names and contents, in the same order) and the question.
C22_SplicingRoundTrips ==
    [][SubmitsTurn /\ Len(files) > 0 =>
         Recovered(SentUserMessage.content) = [files |-> files, question |-> Trim(input)]]_vars

----------------------------------------------------------------------------
\* Properties of the chat-completion requests and of the descriptor set.

\* C23: a chat-completion request, the first of a turn or the follow-up,
\* carries the tools array (a descriptor per tool) and tool_choice "auto" when
\* the aggregated tool set, the tools state the turn was submitted with, is
\* not empty, and neither field when it is empty.
C23_ToolsSentIffNonEmpty ==
    /\ Len(turnRequests) > 0 => turnTools = tools
    /\ \A k \in 1..Len(turnRequests) :
        IF Len(tools) > 0
        THEN /\ turnRequests[k].tool_choice = "auto"
             /\ Len(turnRequests[k].tools) = Len(tools)
             /\ \A n \in 1..Len(tools) : turnRequests[k].tools[n].name = tools[n].name
        ELSE /\ turnRequests[k].tool_choice = "absent"
             /\ turnRequests[k].tools = <<>>

\* A turn has sent its follow-up request with the tools of a non-empty set.
C23_FollowupWithTools ==
    /\ Len(turnRequests) = 2
    /\ Len(tools) > 0
    /\ turnRequests[2].tool_choice = "auto"

----------------------------------------------------------------------------
\* A session of the client that calls the tools itself, with its registry:
\* turns are submitted while the refreshes of the tool set run and the
\* provider list is changed.  The environment is kept small: a provider fails
\* or serves one schema, a response asks for at most one tool call, and one
\* turn is submitted.

SessionProviderResponses ==
    { [ok |-> FALSE, schema |-> <<>>],
      [ok |-> TRUE, schema |-> << Operation(<<"/", "w">>, "post", <<"w", "_", "post">>) >>] }

SessionInitialResponses(t) ==
    { Response("error", HttpError, Undefined),
      Response("message", NoError, AssistantMessage(<<"answer">>, <<>>)),
      Response("message", NoError,
               AssistantMessage(<<>>, <<ToolCall(<<t, 1>>, <<"w">>, "json")>>)) }

SessionFollowupResponses ==
    { Response("error", HttpError, Undefined),
      Response("message", NoError, AssistantMessage(<<"final answer">>, <<>>)) }

NextSession ==
    \/ \E text \in TypedTexts : setInput(text)
    \/ startNewChat
    \/ turn = 0 /\ sendMessage
    \/ \E resp \in SessionInitialResponses(turn) : initialResponse(resp)
    \/ \E ok \in BOOLEAN : toolResponse(1, ok)
    \/ \E resp \in SessionFollowupResponses : followupResponse(resp)
    \/ \E k \in 1..2, response \in SessionProviderResponses : fetchResponse(k, response)
    \/ \E url \in ServerUrls : Len(fetches) < 2 /\ handleRemoveServer(url)

SpecSession == InitRegistry /\ [][NextSession]_vars

IsPrefix(s, t) == Len(s) <= Len(t) /\ SubSeq(t, 1, Len(s)) = s

\* The explicit reset: the history, the input and the attachments are cleared.
ResetStep == messages' = <<>> /\ input' = <<>> /\ files' = <<>>

\* C24: the history only grows: every step that is not the explicit reset
\* (a turn submission, a tool dispatch, a model response, an error, a
\* registry refresh, a settings change) leaves the messages it finds as a
\* prefix of the new history.
C24_HistoryOnlyGrows == [][IsPrefix(messages, messages') \/ ResetStep]_vars

----------------------------------------------------------------------------
\* The normalisation of a provider's schema on its own.

OperationIds ==
    { <<"get", "_", "weather", "_", "create">>,
      <<"get", "_", "weather", "_", "post">>,
      <<"post", "_", "it">>,
      <<"w">> }

WeatherRef == <<"#", "/", "components", "/", "schemas", "/", "WeatherIn">>
ItRef == <<"#", "/", "components", "/", "schemas", "/", "ItIn">>
GoneRef == <<"#", "/", "components", "/", "schemas", "/", "Gone">>

RequestBodies ==
    { RequestBody(FALSE, FALSE, <<>>),
      RequestBody(TRUE, FALSE, <<>>),
      RequestBody(TRUE, TRUE, <<>>),
      RequestBody(TRUE, TRUE, WeatherRef),
      RequestBody(TRUE, TRUE, ItRef),
      RequestBody(TRUE, TRUE, GoneRef) }

\* schema.components.schemas: WeatherIn requires city, ItIn has no required.
Components ==
    (<<"WeatherIn">> :> ComponentSchema([city |-> "string", days |-> "integer"],
                                        TRUE, <<"city">>))
    @@ (<<"ItIn">> :> ComponentSchema([it |-> "string"], FALSE, <<>>))

Operations ==
    { ToolInfo(path, method, id, description, <<"summary">>, body) :
        path \in { <<"/", "get_weather">> },
        method \in { "post", "POST", "get" },
        id \in OperationIds,
        description \in { <<>>, <<"description">> },
        body \in RequestBodies }

\* A second operation of a schema.
LaterOperations ==
    { ToolInfo(<<"/", "w">>, "post", <<"w", "_", "post">>, <<>>, <<>>,
               RequestBody(TRUE, TRUE, ItRef)) }

InitSchema ==
    /\ messages = <<>>
    /\ input = <<>>
    /\ files = <<>>
    /\ tools = <<>>
    /\ crashed = FALSE
    /\ turn = 0
    /\ phase = "idle"
    /\ apiMessages = <<>>
    /\ turnTools = <<>>
    /\ botMessage = Undefined
    /\ toolPromises = <<>>
    /\ doneOrder = <<>>
    /\ toolResults = <<>>
    /\ turnRequests = <<>>
    /\ turnResponses = <<>>
    /\ emittedToolCallIds = {}
    /\ mcpoServers = <<>>
    /\ storedServers = <<>>
    /\ newServerUrl = <<>>
    /\ testResults = <<>>
    /\ fetches = <<>>
    /\ agentTools = <<>>
    /\ enabledTools = <<>>
    /\ storedEnabled = <<>>
    /\ toolsFetch = "none"
    /\ isLoading = FALSE
    /\ agentRequests = <<>>
    /\ uploads = <<>>
    /\ evaluation = NoEvaluation
    /\ testing = <<>>
    /\ tests = <<>>
    /\ \E first \in Operations, rest \in {<<>>} \cup {<<later>> : later \in LaterOperations} :
          openapi = [operations |-> <<first>> \o rest, components |-> Components,
                     done |-> FALSE, processed |-> <<>>]

\* processOpenAPISchema(schema), for the schema in hand
processOpenAPISchema ==
    /\ ~openapi.done
    /\ openapi' = [openapi EXCEPT !.done = TRUE,
                                  !.processed = Processed(openapi.operations,
                                                          openapi.components)]
    /\ UNCHANGED <<messages, input, files, tools, crashed, turnVars, settingsVars,
                   agentVars, uploads, evaluation, testVars>>

NextSchema == processOpenAPISchema

SpecSchema == InitSchema /\ [][NextSchema]_vars

\* The operations of the schema in hand that are POST operations, in order.
PostOperations == SelectSeq(openapi.operations, LAMBDA op : ToLowerCase(op.method) = "post")

\* The parameters the descriptor of op carries are those of the component
\* schema its request body refers to, required being empty when the component
\* has none, and the empty object schema when it refers to none.
ParametersFromComponent(op, d) ==
    /\ op.requestBody = RequestBody(TRUE, TRUE, WeatherRef)
          => /\ d.function.parameters.properties = [city |-> "string", days |-> "integer"]
             /\ d.function.parameters.required = <<"city">>
    /\ op.requestBody = RequestBody(TRUE, TRUE, ItRef)
          => /\ d.function.parameters.properties = [it |-> "string"]
             /\ d.function.parameters.required = <<>>
    /\ op.requestBody \notin { RequestBody(TRUE, TRUE, WeatherRef),
                               RequestBody(TRUE, TRUE, ItRef) }
          => /\ d.function.parameters.properties = <<>>
             /\ d.function.parameters.required = <<>>

\* C25 as stated: the operation id get_weather_create yields the tool name
\* get-weather, with the parameters of the referenced component schema and
\* the declared path as invocation path.
C25_CreateSuffixStripped ==
    openapi.done =>
        /\ Len(openapi.processed) = Len(PostOperations)
        /\ \A i \in 1..Len(PostOperations) :
              LET op == PostOperations[i]
                  d == openapi.processed[i]
              IN  /\ op.operationId = <<"get", "_", "weather", "_", "create">>
                        => d.function.name = <<"get", "-", "weather">>
                  /\ ParametersFromComponent(op, d)
                  /\ d.openapiPath = op.path

\* C25, amended: only a trailing _post is taken off the operation id, and
\* every underscore becomes a hyphen: get_weather_post yields get-weather and
\* get_weather_create yields get-weather-create; the parameters are those of
\* the referenced component schema (required empty when it has none) and the
\* declared path is the invocation path.
C25_PostSuffixStripped ==
    openapi.done =>
        /\ Len(openapi.processed) = Len(PostOperations)
        /\ \A i \in 1..Len(PostOperations) :
              LET op == PostOperations[i]
                  d == openapi.processed[i]
              IN  /\ op.operationId = <<"get", "_", "weather", "_", "post">>
                        => d.function.name = <<"get", "-", "weather">>
                  /\ op.operationId = <<"get", "_", "weather", "_", "create">>
                        => d.function.name = <<"get", "-", "weather", "-", "create">>
                  /\ op.operationId = <<"post", "_", "it">>
                        => d.function.name = <<"post", "-", "it">>
                  /\ op.operationId = <<"w", "_", "post">> => d.function.name = <<"w">>
                  /\ \A j \in 1..Len(d.function.name) : d.function.name[j] # "_"
                  /\ ParametersFromComponent(op, d)
                  /\ d.openapiPath = op.path
        /\ \A url \in ServerUrls :
              ProcessedTools(openapi.operations, url)
                 = [i \in 1..Len(openapi.processed) |->
                       Tool(openapi.processed[i].function.name,
                            openapi.processed[i].openapiPath, url)]

\* A schema was processed whose operation get_weather_post refers to a
\* component without required fields.
C25_WeatherPostProcessed ==
    /\ openapi.done
    /\ Len(openapi.processed) > 0
    /\ openapi.operations[1].operationId = <<"get", "_", "weather", "_", "post">>
    /\ openapi.operations[1].method = "POST"
    /\ openapi.operations[1].requestBody = RequestBody(TRUE, TRUE, ItRef)
    /\ openapi.processed[1].function.name = <<"get", "-", "weather">>

\* The k-th refresh comes to its end in this step.
FinishedInStep(k) ==
    /\ k \in 1..Len(fetches')
    /\ fetches'[k].done
    /\ (k > Len(fetches) \/ ~fetches[k].done)

\* The new tool set is the result of a refresh that ends in this step, and
\* each of its descriptors was served by a provider of that refresh's list.
RefreshReplaces ==
    \E k \in 1..Len(fetches') :
        /\ FinishedInStep(k)
        /\ tools' = fetches'[k].uniqueTools
        /\ \A i \in 1..Len(tools') :
              \E j \in 1..Len(fetches'[k].servers) :
                  /\ fetches'[k].servers[j] = tools'[i].serverUrl
                  /\ fetches'[k].responses[j].ok
                  /\ \E n \in 1..Len(fetches'[k].responses[j].schema) :
                        /\ fetches'[k].responses[j].schema[n].path = tools'[i].openapiPath
                        /\ FunctionName(fetches'[k].responses[j].schema[n].operationId)
                              = tools'[i].name

\* C26: the tool descriptor set changes only when a registry refresh ends,
\* and then it is that refresh's result and nothing else (no descriptor of a
\* provider outside the refreshed list survives); a step of a turn (send,
\* response, dispatch, follow-up) leaves the descriptor set and the
\* enablement map as they are.
C26_DescriptorsChangeOnlyOnRefresh ==
    [][ /\ tools' # tools => RefreshReplaces
        /\ turnVars' # turnVars \/ agentRequests' # agentRequests
              => /\ tools' = tools
                 /\ agentTools' = agentTools
                 /\ enabledTools' = enabledTools ]_vars

\* After a provider was removed a second refresh replaced a non-empty tool
\* set, and a turn has dispatched a tool call.
C26_RefreshedAfterRemoval ==
    /\ Len(fetches) = 2
    /\ fetches[1].done /\ Len(fetches[1].uniqueTools) > 0
    /\ fetches[2].done /\ tools = fetches[2].uniqueTools
    /\ tools # fetches[1].uniqueTools
    /\ Len(toolResults) > 0

\* The URL the first POST of a call to toolName goes to when the call is
\* resolved against the tools ts: endpoint and path of the first descriptor
\* of that name, or the fallback path made of the name.
ResolvedUrl(ts, toolName) ==
    LET named == {i \in 1..Len(ts) : ts[i].name = toolName}
    IN  IF named # {}
        THEN LET d == ts[CHOOSE i \in named : \A j \in named : i <= j]
             IN  StripTrailingSlash(d.serverUrl) \o d.openapiPath
        ELSE <<"/mcpo", "/">> \o toolName

\* C27: every tool call of a dispatched batch is resolved by name and
\* attempted: its first POST goes to the endpoint and invocation path of the
\* descriptor of that name and, when there is none, to the fallback path
\* "/" + name.
C27_CallsPostedToResolvedPath ==
    \A i \in 1..Len(toolPromises) :
        /\ Len(toolPromises[i].posts) >= 1
        /\ toolPromises[i].posts[1] = ResolvedUrl(turnTools, botMessage.tool_calls[i].name)

\* C28: an evaluation run with the application's own sendMessage submits
\* the test queries one at a time in list order (the request it waits for
\* carries the query it asked) and does not fail; once it has resolved, the
\* map has one entry per query, PASS or FAIL.
C28_EvaluateGradesEachQuery ==
    /\ evaluation.st # "rejected"
    /\ IsPrefix(evaluation.asked, TestQueries)
    /\ evaluation.st = "awaiting" =>
          LET sent == agentRequests[evaluation.request].payload.messages
          IN  sent[Len(sent)].content = evaluation.asked[Len(evaluation.asked)]
    /\ evaluation.st = "resolved" =>
          /\ Len(evaluation.results) = Len(TestQueries)
          /\ \A i \in 1..Len(TestQueries) :
                /\ evaluation.results[i].query = TestQueries[i]
                /\ evaluation.results[i].verdict \in {"PASS", "FAIL"}

\* C29: whenever no handler is running, the enablement map in storage is the
\* enablement map in memory: the stored text parses to the map of the state
\* (nothing is stored only as long as the map is empty and was never
\* initialised), and after the discovery there is a stored copy.
C29_PersistedEqualsInMemory ==
    ~crashed =>
        /\ storedEnabled.present =>
              /\ storedEnabled.parseable
              /\ JsonParse(storedEnabled) = enabledTools
              /\ storedEnabled = JsonStringify(enabledTools)
        /\ ~storedEnabled.present => DOMAIN enabledTools = {}
        /\ toolsFetch = "done" => storedEnabled.present

\* The module m1 and the server s2, both absent from a saved map, were
\* toggled one after the other (on, then off), and both are off in memory
\* and in storage.
C29_TwoGroupsToggled ==
    /\ ~crashed
    /\ "old" \in DOMAIN enabledTools
    /\ "m1" \in DOMAIN enabledTools /\ ~enabledTools["m1"]
    /\ "s2" \in DOMAIN enabledTools /\ ~enabledTools["s2"]
    /\ {<<"m1", "false">>, <<"s2", "false">>} \subseteq storedEnabled.entries

\* The step is a toggle of the group name.
ToggleStep(name) ==
    /\ name \in Discovered(agentTools)
    /\ enabledTools' # enabledTools
    /\ ToggleEffect(name)

\* C30: after a toggle of a group, a second toggle of the same group gives
\* back what the filter saw before the first: when the group had a key, the
\* map is the original map; when it had none, the group is disabled before
\* the first toggle and after the second, and in both cases the names the
\* filter lets through are the same.
C30_DoubleToggleRestores ==
    [][\A name \in GroupNames :
         ToggleStep(name) =>
            LET twice == UpdatedEnabled(enabledTools', name)
            IN  /\ name \in DOMAIN enabledTools => twice = enabledTools
                /\ name \notin DOMAIN enabledTools =>
                      ~Enabled(enabledTools, name) /\ ~Enabled(twice, name)
                /\ EnabledNames(agentTools.langgraph, twice)
                     = EnabledNames(agentTools.langgraph, enabledTools)
                /\ EnabledNames(agentTools.mcpo, twice)
                     = EnabledNames(agentTools.mcpo, enabledTools)]_vars

\* Beside the saved keys s1 (on) and old (off), the server s2, which had no
\* key, has been toggled twice and is off.
C30_ToggledSavedAndAbsentKey ==
    /\ ~crashed
    /\ <<"s1", "true">> \in storedEnabled.entries
    /\ "old" \in DOMAIN enabledTools /\ ~enabledTools["old"]
    /\ "s2" \in DOMAIN enabledTools /\ ~enabledTools["s2"]
    /\ <<"s2", "false">> \in storedEnabled.entries

----------------------------------------------------------------------------
\* The agent client used one turn at a time: the next turn is submitted when
\* no request is in flight (a second submission during a turn is left to
\* the caller by the design), and every request is answered or fails.

InFlight == \E k \in 1..Len(agentRequests) : ~agentRequests[k].answered

NextOneTurn ==
    \/ \E text \in TypedTexts : setInput(text)
    \/ startNewChat
    \/ ~InFlight /\ sendMessageToAgent
    \/ \E k \in 1..MaxTurns, resp \in AgentResponses : agentResponse(k, resp)
    \/ \E fetchedTools \in Discoveries : fetchToolsResponse(fetchedTools)
    \/ fetchToolsFailure

SpecOneTurn ==
    /\ InitAgent
    /\ [][NextOneTurn]_vars
    /\ WF_vars(\E k \in 1..MaxTurns, resp \in AgentResponses : agentResponse(k, resp))

\* A submission is accepted in this step.
AcceptedStep == turn' = turn + 1

\* A request is answered, or fails, in this step.
AnsweredStep ==
    \E k \in 1..Len(agentRequests) : ~agentRequests[k].answered /\ agentRequests'[k].answered

IsAssistant(msg) == msg.role = "assistant"

----------------------------------------------------------------------------
\* Turns with attachments: files are selected, read and removed, texts are
\* typed (one of them blank), and a submitted turn is answered or fails, so
\* that a further turn follows.

AttachTexts == TypedTexts \cup { <<" ">> }

TurnSelections == { <<PlainFile>>, <<PlainFile, RuledFile>> }

PlainResponses ==
    { Response("error", HttpError, Undefined),
      Response("message", NoError, AssistantMessage(<<"answer">>, <<>>)) }

NextAttachTurns ==
    \/ \E text \in AttachTexts : setInput(text)
    \/ \E selectedFiles \in TurnSelections : handleFileChange(selectedFiles)
    \/ \E k \in 1..MaxUploads, i \in 1..2 : readerOnload(k, i)
    \/ startNewChat
    \/ sendMessage
    \/ \E resp \in PlainResponses : initialResponse(resp)

\* The session starts before the first refresh has brought any tool.
InitAttachTurns == InitAttach /\ tools = <<>>

SpecAttachTurns == InitAttachTurns /\ [][NextAttachTurns]_vars

\* The submission would be one of a blank text without attachment.
EmptySubmission == Trim(input) = <<>> /\ Len(files) = 0

\* C32: a submission of a blank text without attachment is a no-op: in such
\* a state no sendMessage step, of either client, changes anything (no
\* message, no request, input, attachments and flags as they were); every
\* submission that is accepted is one of a text or of attachments, sends the
\* request with the attachments of the list and leaves input and attachment
\* list empty.
C32_EmptySubmissionIsNoOp ==
    /\ [](EmptySubmission =>
             /\ ~ENABLED <<sendMessage>>_vars
             /\ ~ENABLED <<sendMessageToAgent>>_vars)
    /\ [][turn' = turn + 1 =>
             /\ ~EmptySubmission
             /\ input' = <<>>
             /\ files' = <<>>
             /\ messages' = Append(messages, UserMessage(Trim(input)))
             /\ Len(turnRequests') = 1
             /\ LET sent == turnRequests'[1].messages
                IN  sent[Len(sent)] = UserMessage(ApiContent(Trim(input), files))]_vars

\* After a turn with an attachment and no text, a blank text is typed and
\* the attachment list is empty.
C32_BlankAfterAttachmentTurn ==
    /\ turn = 1
    /\ Len(messages) > 0
    /\ messages[1] = UserMessage(<<>>)
    /\ input = <<" ">>
    /\ files = <<>>

\* The part of a request between the prompt with its examples and the user
\* message of the turn.
HistoryPart(sent) == SubSeq(sent, 2 + Len(FewShotExamples), Len(sent) - 1)

\* The text holds spliced attachment content.
HoldsFileContext(text) == \E j \in 1..Len(text) : text[j] = "CONTEXT FROM FILE: "

\* C33: the user message a submission appends to the history holds the
\* trimmed typed text only, the request of the turn holds the content with
\* the attachments spliced in, and the history part of the request is the
\* session history as it was at the submission, in which no attachment
\* content of an earlier turn is found.
C33_HistoryHoldsTypedTextOnly ==
    [][turn' = turn + 1 =>
         LET sent == turnRequests'[1].messages
         IN  /\ messages' = Append(messages, UserMessage(Trim(input)))
             /\ sent[Len(sent)] = UserMessage(ApiContent(Trim(input), files))
             /\ HistoryPart(sent) = messages
             /\ \A i \in 1..Len(HistoryPart(sent)) :
                   ~HoldsFileContext(HistoryPart(sent)[i].content)]_vars

\* C34: after New Chat the history holds only messages of turns submitted
\* after the reset, so that it starts with the user message of such a turn
\* (a turn in flight at the reset appends no answer, no tool result and no
\* error message to the cleared history); and the reset changes only the
\* messages, the attachments and the input.
C34_ResetDropsTurnInFlight ==
    /\ [](Len(messages) > 0 => messages[1].role = "user")
    /\ [][messages # <<>> /\ messages' = <<>> =>
             /\ input' = <<>>
             /\ files' = <<>>
             /\ UNCHANGED <<tools, crashed, turnVars, settingsVars, agentVars, otherVars>>]_vars

\* C35: once every refresh has finished, the tool set is the one the latest
\* refresh, started with the provider list as it is now, has aggregated,
\* whatever the order in which overlapping refreshes ended.
C35_LatestRefreshWins ==
    (fetches # <<>> /\ \A k \in 1..Len(fetches) : fetches[k].done) =>
        /\ fetches[Len(fetches)].servers = mcpoServers
        /\ tools = fetches[Len(fetches)].uniqueTools

----------------------------------------------------------------------------
\* The settings of the legacy client: providers are added, removed and
\* tested.  The refreshes the changes of the list start are left pending.

MaxTests == 2

\* A call of handleTestServer: the provider it tests, and whether its GET
\* has been answered.
Test(url, answered) == [url |-> url, answered |-> answered]

\* testing[url], undefined read as false
Testing(url) == url \in DOMAIN testing /\ testing[url]

\* handleTestServer, from the Test button of a listed provider (disabled
\* while testing[url]), up to its await.
handleTestServer(url) ==
    /\ Len(tests) < MaxTests
    /\ Includes(mcpoServers, url)
    /\ ~Testing(url)
    /\ testing' = WithKey(testing, url, TRUE)
    /\ tests' = Append(tests, Test(url, FALSE))
    /\ UNCHANGED <<messages, input, files, tools, crashed, turnVars, settingsVars,
                   agentVars, uploads, evaluation, openapi>>

\* The verdicts of a test: an OpenAPI document, another document, or a
\* failure (no answer within the timeout included).
Verdicts == {"success", "invalid", "fail"}

\* handleTestServer after its await: the verdict is recorded for the URL and
\* the testing flag of the URL is cleared.
testResponse(k, verdict) ==
    /\ k \in 1..Len(tests)
    /\ ~tests[k].answered
    /\ tests' = [tests EXCEPT ![k].answered = TRUE]
    /\ testResults' = WithKey(testResults, tests[k].url, verdict)
    /\ testing' = WithKey(testing, tests[k].url, FALSE)
    /\ UNCHANGED <<messages, input, files, tools, crashed, turnVars, mcpoServers,
                   storedServers, newServerUrl, fetches, agentVars, uploads,
                   evaluation, openapi>>

\* What the user types as a new provider URL, blank texts included.
SettingsUrls == TypedUrls \cup { <<" ">> }

NextSettings ==
    \/ \E text \in SettingsUrls : setNewServerUrl(text)
    \/ handleAddServer
    \/ \E url \in ServerUrls : handleRemoveServer(url)
    \/ \E url \in ServerUrls : handleTestServer(url)
    \/ \E k \in 1..MaxTests, verdict \in Verdicts : testResponse(k, verdict)

SpecSettings == InitRegistry /\ [][NextSettings]_vars
\* A provider list without an empty or blank URL and without a URL twice.
WellFormed(list) ==
    /\ \A i \in 1..Len(list) : Trim(list[i]) # <<>>
    /\ \A i, j \in 1..Len(list) : list[i] = list[j] => i = j

\* The typed URL is one that handleAddServer refuses: empty or blank, or
\* already listed once trimmed.
RefusedUrl == Trim(newServerUrl) = <<>> \/ Includes(mcpoServers, Trim(newServerUrl))

\* C36: after any sequence of add and remove operations the provider list
\* holds no empty URL and no URL twice; adding an empty, blank or already
\* listed URL changes nothing; and whenever the list changes, the persisted
\* list is the new in-memory list.
C36_ProviderListWellFormed ==
    /\ [](WellFormed(mcpoServers))
    /\ [](RefusedUrl => ~ENABLED <<handleAddServer>>_vars)
    /\ [][mcpoServers' # mcpoServers => storedServers' = mcpoServers']_vars

\* C36 witness: the list started with one provider, a second was added from
\* a typed text with a leading space, and a blank text is now typed.
C36_AddedTrimmedThenBlankTyped ==
    /\ fetches[1].servers = << <<"http://s1">> >>
    /\ mcpoServers = << <<"http://s1">>, <<"http://s2", "/">> >>
    /\ storedServers = mcpoServers
    /\ newServerUrl = <<" ">>
    /\ Len(fetches) < MaxFetches

\* No provider test is awaiting its answer.
NoTestInFlight == \A k \in 1..Len(tests) : tests[k].answered

\* The step completes the test k.
TestCompletes(k) == k \in 1..Len(tests) /\ ~tests[k].answered /\ tests'[k].answered

\* C37: once no test is in flight, every key of the test-result map is a
\* configured provider, whatever the interleaving of add, remove and test
\* (a test that completes after its provider was removed included).
C37_ResultsOnlyOfConfiguredProviders ==
    NoTestInFlight => \A url \in DOMAIN testResults : Includes(mcpoServers, url)

\* The testing flag of a provider is false after its test has completed.
TestingClearedOnCompletion ==
    [][\A k \in 1..MaxTests : TestCompletes(k) => ~Testing(tests[k].url)']_vars

\* Every read of the k-th selection has completed.
AllRead(k) == Len(uploads[k].newFiles) = Len(uploads[k].selectedFiles)

\* The step runs the last pending onload of the k-th selection.
SelectionCompletes(k) == k \in 1..Len(uploads) /\ ~AllRead(k) /\ AllRead(k)'

\* The number of entries of list equal to x
Occurrences(list, x) == Cardinality({ n \in 1..Len(list) : list[n] = x })

\* Two lists hold the same files the same number of times.
SameFiles(a, b) ==
    \A x \in Elements(a) \cup Elements(b) : Occurrences(a, x) = Occurrences(b, x)

\* C38: a selection adds its files to the attachment list all together, once,
\* in the step of its last read and in no other step, behind the files the
\* list holds then (none after a submission); the added files are the
\* selected ones, each as often as selected; the reads before the last one
\* leave the list alone, and no other step adds a file to the list.
C38_SelectionAddedWholeAndOnce ==
    [][/\ \A k \in 1..MaxUploads :
            SelectionCompletes(k) =>
                /\ files' = files \o uploads'[k].newFiles
                /\ SameFiles(uploads'[k].newFiles, uploads[k].selectedFiles)
       /\ (uploads' # uploads /\ ~\E k \in 1..MaxUploads : SelectionCompletes(k))
              => files' = files
       /\ uploads' = uploads
              => \A x \in Elements(files') : Occurrences(files', x) <= Occurrences(files, x)
      ]_vars

\* C38 witness: a turn was submitted and the list, emptied by it, now holds
\* the two files of the single selection, read in the reverse order.
C38_SelectionAddedAfterSubmission ==
    /\ turn = 1
    /\ Len(uploads) = 1
    /\ uploads[1].selectedFiles = <<PlainFile, RuledFile>>
    /\ files = <<RuledFile, PlainFile>>

====
